---- MODULE Spec2Model ----
(***************************************************************************)
(* gslk: linking and unlinking packages of a source tree into a target     *)
(* tree with symbolic links (linker.go).  The model keeps one file system  *)
(* (source, target and everything else), the Linker's two directories and  *)
(* the log of the operations run so far.  Link and Unlink are one action   *)
(* each: the whole call, walk included.  rival is what another process    *)
(* does while Unlink runs: the links it removes between Unlink's look at  *)
(* a link and Unlink's own removal of it.                                  *)
(*                                                                         *)
(* Strings are sequences of one-character strings, a path string is a      *)
(* record [abs, c]: whether it starts with the separator, and its          *)
(* components (which may be "." or ".." before Clean).                     *)
(***************************************************************************)
EXTENDS Naturals, Sequences, FiniteSets, TLC

VARIABLES fs, linker, log, rival

vars == <<fs, linker, log, rival>>

----------------------------------------------------------------------------
(* Bounds of the model                                                     *)

\* operations (Link or Unlink calls) in one behaviour
MaxOps == 2

\* entries (groups of entries) the target tree holds before the first call
MaxPre == 1

\* symbolic links one path resolution follows before it gives up (ELOOP)
MaxHops == 3

----------------------------------------------------------------------------
(* Characters and strings                                                  *)

\* the characters of the model, in byte order
Alphabet ==
  << " ", "#", "*", "-", ".", "/", "?", "[", "\\", "]", "^",
     "a", "b", "c", "d", "e", "f", "g", "i", "k", "l", "m", "n", "o", "p", "q",
     "r", "s", "t", "u", "w", "x", "z" >>

Code(ch) == CHOOSE i \in 1..Len(Alphabet) : Alphabet[i] = ch

Separator == "/"

\* strings.Contains(s, string(filepath.Separator))
HasSeparator(s) == \E i \in 1..Len(s) : s[i] = Separator

Drop(s, n) == SubSeq(s, n + 1, Len(s))

\* byte-wise s < t, the order os.ReadDir sorts file names in
RECURSIVE StrLess(_, _)
StrLess(s, t) ==
  IF t = <<>> THEN FALSE
  ELSE IF s = <<>> THEN TRUE
  ELSE IF Head(s) = Head(t) THEN StrLess(Tail(s), Tail(t))
  ELSE Code(Head(s)) < Code(Head(t))

IsSpace(ch) == ch = " "

\* strings.TrimSpace
RECURSIVE TrimLeft(_)
TrimLeft(s) ==
  IF s # <<>> /\ IsSpace(Head(s)) THEN TrimLeft(Tail(s)) ELSE s

RECURSIVE TrimRight(_)
TrimRight(s) ==
  IF s # <<>> /\ IsSpace(s[Len(s)]) THEN TrimRight(SubSeq(s, 1, Len(s) - 1)) ELSE s

TrimSpace(s) == TrimRight(TrimLeft(s))

----------------------------------------------------------------------------
(* Path strings (package path/filepath, lexical)                           *)

Dot == <<".">>
DotDot == <<".", ".">>

P(isAbs, comps) == [abs |-> isAbs, c |-> comps]

\* filepath.Clean on the components: "." dropped, ".." takes back the
\* component before it (dropped at the root, kept at the start of a
\* relative path)
RECURSIVE CleanComps(_, _, _)
CleanComps(isAbs, done, rest) ==
  IF rest = <<>> THEN done
  ELSE LET h == Head(rest) IN
    IF h = Dot THEN CleanComps(isAbs, done, Tail(rest))
    ELSE IF h = DotDot THEN
      IF done # <<>> /\ done[Len(done)] # DotDot
        THEN CleanComps(isAbs, SubSeq(done, 1, Len(done) - 1), Tail(rest))
      ELSE IF isAbs THEN CleanComps(isAbs, done, Tail(rest))
      ELSE CleanComps(isAbs, Append(done, h), Tail(rest))
    ELSE CleanComps(isAbs, Append(done, h), Tail(rest))

Clean(p) == P(p.abs, CleanComps(p.abs, <<>>, p.c))

\* filepath.Join(a, b), a not empty: Clean(a + "/" + b); the separator a
\* leading b starts with merges with the one Join adds
Join(a, b) == Clean(P(a.abs, a.c \o b.c))

\* filepath.Dir, filepath.Base of a clean path with at least one component
Dir(p) == Clean(P(p.abs, SubSeq(p.c, 1, Len(p.c) - 1)))

Base(p) == IF p.c = <<>> THEN (IF p.abs THEN <<Separator>> ELSE Dot) ELSE p.c[Len(p.c)]

\* the process's working directory
Cwd == P(TRUE, << <<"w">> >>)

\* filepath.Abs
Abs(p) == IF p.abs THEN Clean(p) ELSE Join(Cwd, p)

\* filepath.Rel(base, target) for a target below base (both clean)
Rel(base, target) == P(FALSE, Drop(target.c, Len(base.c)))

\* the string of a relative path: its components with separators between
RECURSIVE PathString(_)
PathString(comps) ==
  IF comps = <<>> THEN <<>>
  ELSE IF Len(comps) = 1 THEN comps[1]
  ELSE comps[1] \o <<Separator>> \o PathString(Tail(comps))

\* strings.HasPrefix on two absolute clean paths as strings: b's components
\* are a's first ones, the last of them possibly only a prefix of a's
StrHasPrefix(s, pre) == Len(pre) <= Len(s) /\ SubSeq(s, 1, Len(pre)) = pre

AbsString(p) == IF p.c = <<>> THEN <<Separator>> ELSE <<Separator>> \o PathString(p.c)

----------------------------------------------------------------------------
(* filepath.Match, as the library computes it (chunks between stars)       *)

RECURSIVE SkipStars(_)
SkipStars(pat) == IF pat # <<>> /\ Head(pat) = "*" THEN SkipStars(Tail(pat)) ELSE pat

\* scanChunk's scan: the number of characters before the next star that is
\* outside a class; a backslash takes the character after it along
RECURSIVE ChunkEnd(_, _, _)
ChunkEnd(pat, i, inrange) ==
  IF i >= Len(pat) THEN Len(pat)
  ELSE LET ch == pat[i + 1] IN
    IF ch = "\\" THEN ChunkEnd(pat, IF i + 1 < Len(pat) THEN i + 2 ELSE i + 1, inrange)
    ELSE IF ch = "[" THEN ChunkEnd(pat, i + 1, TRUE)
    ELSE IF ch = "]" THEN ChunkEnd(pat, i + 1, FALSE)
    ELSE IF ch = "*" /\ ~inrange THEN i
    ELSE ChunkEnd(pat, i + 1, inrange)

ScanAt(pattern, pat, i) ==
  [star |-> pat # pattern, chunk |-> SubSeq(pat, 1, i), rest |-> Drop(pat, i)]

ScanFrom(pattern, pat) == ScanAt(pattern, pat, ChunkEnd(pat, 0, FALSE))

ScanChunk(pattern) == ScanFrom(pattern, SkipStars(pattern))

BadEsc == [err |-> TRUE, r |-> 0, chunk |-> <<>>]

\* getEsc: one (possibly escaped) character of a class
GetEsc(chunk) ==
  LET Read(c1) ==
        IF c1 = <<>> THEN BadEsc
        ELSE [err |-> Tail(c1) = <<>>, r |-> Code(Head(c1)), chunk |-> Tail(c1)]
  IN IF chunk = <<>> \/ Head(chunk) = "-" \/ Head(chunk) = "]" THEN BadEsc
     ELSE Read(IF Head(chunk) = "\\" THEN Tail(chunk) ELSE chunk)

BadClass == [err |-> TRUE, match |-> FALSE, chunk |-> <<>>]

\* matchChunk's loop over the ranges of one class; r is the character read
\* from the name (0: none, the match has failed already)
RECURSIVE ParseRanges(_, _, _, _)
RangeTo(lo, hi, r, match, nrange) ==
  IF hi.err THEN BadClass
  ELSE ParseRanges(hi.chunk, r, match \/ (lo.r <= r /\ r <= hi.r), nrange + 1)

RangeFrom(lo, r, match, nrange) ==
  IF lo.err THEN BadClass
  ELSE IF Head(lo.chunk) = "-" THEN RangeTo(lo, GetEsc(Tail(lo.chunk)), r, match, nrange)
  ELSE ParseRanges(lo.chunk, r, match \/ lo.r = r, nrange + 1)

ParseRanges(chunk, r, match, nrange) ==
  IF chunk # <<>> /\ Head(chunk) = "]" /\ nrange > 0
    THEN [err |-> FALSE, match |-> match, chunk |-> Tail(chunk)]
  ELSE RangeFrom(GetEsc(chunk), r, match, nrange)

BadChunk == [rest |-> <<>>, ok |-> FALSE, err |-> TRUE]

\* matchChunk: the chunk against the start of s; after the match has failed
\* the chunk is still read to its end for syntax errors
RECURSIVE MatchChunk(_, _, _)
MatchLiteral(ch, s, s1, failed) ==
  MatchChunk(Tail(ch), s1, failed \/ Head(ch) # Head(s))

MatchClass(negated, cls, s1, failed) ==
  IF cls.err THEN BadChunk
  ELSE MatchChunk(cls.chunk, s1, failed \/ cls.match = negated)

MatchRanges(negated, r, ch1, s1, failed) ==
  MatchClass(negated, ParseRanges(IF negated THEN Tail(ch1) ELSE ch1, r, FALSE, 0),
             s1, failed)

\* one step of matchChunk's loop; failed: the match has failed by now, s1:
\* what is left of s after the step
MatchStep(chunk, s, failed, s1) ==
  CASE Head(chunk) = "[" ->
         MatchRanges(Tail(chunk) # <<>> /\ Head(Tail(chunk)) = "^",
                     IF failed THEN 0 ELSE Code(Head(s)), Tail(chunk), s1, failed)
    [] Head(chunk) = "?" ->
         MatchChunk(Tail(chunk), s1, failed \/ Head(s) = Separator)
    [] Head(chunk) = "\\" ->
         IF Tail(chunk) = <<>> THEN BadChunk
         ELSE MatchLiteral(Tail(chunk), s, s1, failed)
    [] OTHER -> MatchLiteral(chunk, s, s1, failed)

MatchChunk(chunk, s, failedBefore) ==
  IF chunk = <<>> THEN
    IF failedBefore THEN [rest |-> <<>>, ok |-> FALSE, err |-> FALSE]
    ELSE [rest |-> s, ok |-> TRUE, err |-> FALSE]
  ELSE MatchStep(chunk, s, failedBefore \/ s = <<>>,
                 IF failedBefore \/ s = <<>> THEN s ELSE Tail(s))

\* the star's loop: the chunk at name[i+1:] for i = 0, 1, ... up to the
\* first separator
RECURSIVE StarSkip(_, _, _, _)
StarTried(chunk, name, i, last, r) ==
  IF r.ok /\ ~(last /\ r.rest # <<>>)
    THEN [found |-> TRUE, err |-> FALSE, rest |-> r.rest]
  ELSE IF r.err THEN [found |-> FALSE, err |-> TRUE, rest |-> <<>>]
  ELSE StarSkip(chunk, name, i + 1, last)

StarSkip(chunk, name, i, last) ==
  IF i >= Len(name) \/ name[i + 1] = Separator
    THEN [found |-> FALSE, err |-> FALSE, rest |-> <<>>]
  ELSE StarTried(chunk, name, i, last, MatchChunk(chunk, Drop(name, i + 1), FALSE))

\* the syntax check of what is left of the pattern after a mismatch
RECURSIVE RemainderBad(_)
RemainderCheck(sc) ==
  MatchChunk(sc.chunk, <<>>, FALSE).err \/ RemainderBad(sc.rest)

RemainderBad(pattern) ==
  IF pattern = <<>> THEN FALSE ELSE RemainderCheck(ScanChunk(pattern))

\* filepath.Match(pattern, name): [m: matched, err: ErrBadPattern]
RECURSIVE Match(_, _)
MatchSkipped(sc, sk) ==
  IF sk.found THEN Match(sc.rest, sk.rest)
  ELSE IF sk.err THEN [m |-> FALSE, err |-> TRUE]
  ELSE [m |-> FALSE, err |-> RemainderBad(sc.rest)]

MatchFirst(sc, name, r) ==
  IF r.ok /\ (r.rest = <<>> \/ sc.rest # <<>>) THEN Match(sc.rest, r.rest)
  ELSE IF r.err THEN [m |-> FALSE, err |-> TRUE]
  ELSE MatchSkipped(sc, IF sc.star THEN StarSkip(sc.chunk, name, 0, sc.rest = <<>>)
                        ELSE [found |-> FALSE, err |-> FALSE, rest |-> <<>>])

MatchFrom(sc, name) ==
  IF sc.star /\ sc.chunk = <<>> THEN [m |-> ~HasSeparator(name), err |-> FALSE]
  ELSE MatchFirst(sc, name, MatchChunk(sc.chunk, name, FALSE))

Match(pattern, name) ==
  IF pattern = <<>> THEN [m |-> name = <<>>, err |-> FALSE]
  ELSE MatchFrom(ScanChunk(pattern), name)

----------------------------------------------------------------------------
(* The file system and the system calls the linker makes                   *)
(* fs maps each existing absolute path (its components from the root) to   *)
(* its node; the root <<>> is always a directory.                          *)

NoDest == <<>>

DirNode == [kind |-> "dir", data |-> <<>>, dest |-> NoDest]

FileNode(content) == [kind |-> "file", data |-> content, dest |-> NoDest]

LinkNode(dest) == [kind |-> "symlink", data |-> <<>>, dest |-> dest]

NoNode == [kind |-> "none", data |-> <<>>, dest |-> NoDest]

Parent(at) == IF at = <<>> THEN <<>> ELSE SubSeq(at, 1, Len(at) - 1)

Children(f, at) ==
  {x \in DOMAIN f : Len(x) = Len(at) + 1 /\ SubSeq(x, 1, Len(at)) = at}

Put(f, at, node) == [x \in DOMAIN f \cup {at} |-> IF x = at THEN node ELSE f[x]]

Del(f, at) == [x \in DOMAIN f \ {at} |-> f[x]]

\* the kernel's path walk from directory cur over the components rest;
\* follow: whether a symbolic link in the last component is followed.
\* [err, at, leaf]: on ENOENT at is the missing path and leaf says that
\* only the last component was missing
RECURSIVE Namei(_, _, _, _, _)
Namei(f, cur, rest, follow, hops) ==
  IF rest = <<>> THEN [err |-> "", at |-> cur, leaf |-> FALSE]
  ELSE IF f[cur].kind # "dir" THEN [err |-> "ENOTDIR", at |-> cur, leaf |-> FALSE]
  ELSE LET h == Head(rest)
           r == Tail(rest)
           nxt == Append(cur, h)
       IN IF h = Dot THEN Namei(f, cur, r, follow, hops)
          ELSE IF h = DotDot THEN Namei(f, Parent(cur), r, follow, hops)
          ELSE IF nxt \notin DOMAIN f THEN [err |-> "ENOENT", at |-> nxt, leaf |-> r = <<>>]
          ELSE IF f[nxt].kind = "symlink" /\ (r # <<>> \/ follow) THEN
            IF hops = 0 THEN [err |-> "ELOOP", at |-> nxt, leaf |-> FALSE]
            ELSE Namei(f, IF f[nxt].dest.abs THEN <<>> ELSE cur,
                       f[nxt].dest.c \o r, follow, hops - 1)
          ELSE Namei(f, nxt, r, follow, hops)

\* a path string as the kernel reads it: from the root, or from Cwd
Resolve(f, p, follow) ==
  Namei(f, <<>>, IF p.abs THEN p.c ELSE Cwd.c \o p.c, follow, MaxHops)

\* os.Lstat, os.Stat: [err, node]
NodeAt(f, r) == [err |-> r.err, node |-> IF r.err = "" THEN f[r.at] ELSE NoNode]

Lstat(f, p) == NodeAt(f, Resolve(f, p, FALSE))

Stat(f, p) == NodeAt(f, Resolve(f, p, TRUE))

\* os.Mkdir: [err, fs]
MkdirAt(f, r) ==
  IF r.err = "" THEN [err |-> "EEXIST", fs |-> f]
  ELSE IF r.err = "ENOENT" /\ r.leaf THEN [err |-> "", fs |-> Put(f, r.at, DirNode)]
  ELSE [err |-> r.err, fs |-> f]

Mkdir(f, p) == MkdirAt(f, Resolve(f, p, FALSE))

\* os.MkdirAll: Stat first (a directory, or a link to one, is success);
\* otherwise the parent first, then Mkdir of the path itself
RECURSIVE MkdirAll(_, _)
MkdirMade(up, mk, again) ==
  IF mk.err # "" /\ again.err = "" /\ again.node.kind = "dir"
    THEN [err |-> "", fs |-> up.fs]
  ELSE mk

MkdirBelow(p, up) ==
  IF up.err # "" THEN up ELSE MkdirMade(up, Mkdir(up.fs, p), Lstat(up.fs, p))

\* a MkdirAll that puts a directory in the place of whatever it finds
MkdirTriedOver(f, p, st) ==
  IF st.err = "" THEN
    [err |-> "", fs |-> Put(f, Resolve(f, p, TRUE).at, DirNode)]
  ELSE MkdirBelow(p, IF p.c # <<>> THEN MkdirAll(f, Dir(p)) ELSE [err |-> "", fs |-> f])

MkdirTried(f, p, st) ==
  IF st.err = "" THEN
    [err |-> IF st.node.kind = "dir" THEN "" ELSE "ENOTDIR", fs |-> f]
  ELSE MkdirBelow(p, IF p.c # <<>> THEN MkdirAll(f, Dir(p)) ELSE [err |-> "", fs |-> f])

MkdirAll(f, p) == MkdirTried(f, p, Stat(f, p))

\* os.Symlink(dest, p): [err, fs]
SymlinkAt(f, dest, r) ==
  IF r.err = "" THEN [err |-> "EEXIST", fs |-> f]
  ELSE IF r.err = "ENOENT" /\ r.leaf
    THEN [err |-> "", fs |-> Put(f, r.at, LinkNode(dest))]
  ELSE [err |-> r.err, fs |-> f]

Symlink(f, dest, p) == SymlinkAt(f, dest, Resolve(f, p, FALSE))

\* os.Remove: unlink, or rmdir of an empty directory; a symbolic link is
\* removed itself, whatever it points to
RemoveAt(f, r) ==
  IF r.err # "" THEN [err |-> r.err, fs |-> f]
  ELSE IF r.at = <<>> THEN [err |-> "EBUSY", fs |-> f]
  ELSE IF f[r.at].kind = "dir" /\ Children(f, r.at) # {}
    THEN [err |-> "ENOTEMPTY", fs |-> f]
  ELSE [err |-> "", fs |-> Del(f, r.at)]

Remove(f, p) == RemoveAt(f, Resolve(f, p, FALSE))

RECURSIVE SortNames(_)
SortNames(S) ==
  IF S = {} THEN <<>>
  ELSE LET m == CHOOSE x \in S : \A y \in S \ {x} : StrLess(x, y)
       IN <<m>> \o SortNames(S \ {m})

\* os.ReadDir: the entries of a directory, sorted by name, each with
\* whether it is a directory itself (a link to one is not)
DirEntries(f, at, names) ==
  [i \in 1..Len(names) |->
     [name |-> names[i], isDir |-> f[Append(at, names[i])].kind = "dir"]]

ReadDirAt(f, r) ==
  IF r.err # "" THEN [err |-> r.err, entries |-> <<>>]
  ELSE IF f[r.at].kind # "dir" THEN [err |-> "ENOTDIR", entries |-> <<>>]
  ELSE [err |-> "",
        entries |-> DirEntries(f, r.at, SortNames({x[Len(x)] : x \in Children(f, r.at)}))]

ReadDir(f, p) == ReadDirAt(f, Resolve(f, p, TRUE))

----------------------------------------------------------------------------
(* linker.go                                                               *)

\* the errors Link and Unlink return: what failed, and at which path
NoErr == [kind |-> "", path |-> NoDest]

Err(kind, path) == [kind |-> kind, path |-> path]

IgnoreFileName == <<".", "g", "s", "l", "k", "-", "i", "g", "n", "o", "r", "e">>

Name(n) == P(FALSE, <<n>>)

\* Linker.FindPackages: [err, packages], a package being [Name, Path]
PackagesOf(l, dirs) ==
  IF dirs = <<>> THEN [err |-> Err("noPackages", l.SourceDir), packages |-> <<>>]
  ELSE [err |-> NoErr,
        packages |-> [i \in 1..Len(dirs) |->
                        [Name |-> dirs[i].name,
                         Path |-> Join(l.SourceDir, Name(dirs[i].name))]]]

\* a catalog that takes every entry of the source root for a package
PackagesReadAll(l, rd) ==
  IF rd.err # "" THEN [err |-> Err("readSource", l.SourceDir), packages |-> <<>>]
  ELSE PackagesOf(l, rd.entries)

PackagesRead(l, rd) ==
  IF rd.err # "" THEN [err |-> Err("readSource", l.SourceDir), packages |-> <<>>]
  ELSE PackagesOf(l, SelectSeq(rd.entries, LAMBDA e : e.isDir))

FindPackages(f, l) == PackagesRead(l, ReadDir(f, l.SourceDir))

\* a loader that takes the lines as they are written
RECURSIVE KeepPatternsAsWritten(_)
KeepPatternsAsWritten(lines) ==
  IF lines = <<>> THEN <<>>
  ELSE IF Head(lines) = <<>> \/ Head(Head(lines)) = "#"
    THEN KeepPatternsAsWritten(Tail(lines))
  ELSE <<Head(lines)>> \o KeepPatternsAsWritten(Tail(lines))

\* the lines loadIgnorePatterns keeps: trimmed, neither empty nor a comment
RECURSIVE KeepPatterns(_)
KeepPatterns(lines) ==
  LET Keep(line) ==
        IF line = <<>> \/ Head(line) = "#" THEN KeepPatterns(Tail(lines))
        ELSE <<line>> \o KeepPatterns(Tail(lines))
  IN IF lines = <<>> THEN <<>> ELSE Keep(TrimSpace(Head(lines)))

\* loadIgnorePatterns: [err, patterns].  os.Open follows links and opens
\* a directory too, which the scanner then fails to read
IgnoreOpened(ignoreFilePath, st) ==
  IF st.err = "ENOENT" THEN [err |-> NoErr, patterns |-> <<>>]
  ELSE IF st.err # ""
    THEN [err |-> Err("openIgnore", ignoreFilePath), patterns |-> <<>>]
  ELSE IF st.node.kind # "file"
    THEN [err |-> Err("readIgnore", ignoreFilePath), patterns |-> <<>>]
  ELSE [err |-> NoErr, patterns |-> KeepPatterns(st.node.data)]

IgnoreFrom(f, ignoreFilePath) == IgnoreOpened(ignoreFilePath, Stat(f, ignoreFilePath))

loadIgnorePatterns(f, packagePath) ==
  IgnoreFrom(f, Join(packagePath, Name(IgnoreFileName)))

\* a matcher that tries the full relative path only
RECURSIVE IsIgnoredFullOnly(_, _)
IsIgnoredFullOnly(ignorePatterns, relPath) ==
  LET Full(full) ==
        IF ~full.err /\ full.m THEN TRUE
        ELSE IsIgnoredFullOnly(Tail(ignorePatterns), relPath)
  IN IF ignorePatterns = <<>> THEN FALSE
     ELSE Full(Match(Head(ignorePatterns), PathString(relPath.c)))

\* the loop over the patterns in both walk callbacks: whether some pattern
\* matches relPath; a pattern Match rejects is skipped
RECURSIVE IsIgnored(_, _)
IgnoredBase(ignorePatterns, relPath, base) ==
  IF base.err THEN IsIgnored(Tail(ignorePatterns), relPath)
  ELSE IF base.m THEN TRUE
  ELSE IsIgnored(Tail(ignorePatterns), relPath)

\* a loop that ends at a pattern Match rejects
IgnoredFullStop(ignorePatterns, relPath, pattern, full) ==
  IF full.err THEN FALSE
  ELSE IF ~full.m /\ ~HasSeparator(pattern)
    THEN IgnoredBase(ignorePatterns, relPath, Match(pattern, Base(relPath)))
  ELSE IF full.m THEN TRUE
  ELSE IsIgnored(Tail(ignorePatterns), relPath)

IgnoredFull(ignorePatterns, relPath, pattern, full) ==
  IF full.err THEN IsIgnored(Tail(ignorePatterns), relPath)
  ELSE IF ~full.m /\ ~HasSeparator(pattern)
    THEN IgnoredBase(ignorePatterns, relPath, Match(pattern, Base(relPath)))
  ELSE IF full.m THEN TRUE
  ELSE IsIgnored(Tail(ignorePatterns), relPath)

IgnoredBy(ignorePatterns, relPath, pattern) ==
  IgnoredFull(ignorePatterns, relPath, pattern, Match(pattern, PathString(relPath.c)))

IsIgnored(ignorePatterns, relPath) ==
  IF ignorePatterns = <<>> THEN FALSE
  ELSE IgnoredBy(ignorePatterns, relPath, Head(ignorePatterns))

\* Link's comparison by the file's name alone
LinkAcceptsBase(linkTarget, sourcePath, targetPath) ==
  Base(linkTarget) = Base(sourcePath)

\* Link's comparison with the literal one alone
LinkAcceptsLiteral(linkTarget, sourcePath, targetPath) ==
  linkTarget = sourcePath

\* Link's comparison without the literal one
LinkAcceptsJoined(linkTarget, sourcePath, targetPath) ==
  Abs(Join(Dir(targetPath), linkTarget)) = Abs(sourcePath)

\* Link's comparison of an existing symbolic link with the source
LinkAccepts(linkTarget, sourcePath, targetPath) ==
  \/ linkTarget = sourcePath
  \/ Abs(Join(Dir(targetPath), linkTarget)) = Abs(sourcePath)

\* Unlink's comparison, taking relative destinations only
UnlinkAcceptsRelative(linkTarget, sourcePath) ==
  ~linkTarget.abs /\ Abs(linkTarget) = Abs(sourcePath)

\* Unlink's comparison
UnlinkAccepts(linkTarget, sourcePath) == Abs(linkTarget) = Abs(sourcePath)

\* what a walk callback returns: the file system it leaves, its error,
\* and whether it returned filepath.SkipDir
Ret(f, err, skip) == [fs |-> f, err |-> err, skip |-> skip]

\* a file entry's callback that takes whatever is at the target path for
\* its link
LinkFileAny(f, sourcePath, targetPath) ==
  LET Linked(mk, sl) ==
        IF sl.err # "" THEN Ret(mk.fs, Err("symlink", targetPath), FALSE)
        ELSE Ret(sl.fs, NoErr, FALSE)
      Made(mk) ==
        IF mk.err # "" THEN Ret(mk.fs, Err("mkdir", Dir(targetPath)), FALSE)
        ELSE Linked(mk, Symlink(mk.fs, Abs(sourcePath), targetPath))
      Found(st) ==
        IF st.err = "" THEN
          Ret(f, NoErr, FALSE)
        ELSE IF st.err # "ENOENT" THEN Ret(f, Err("stat", targetPath), FALSE)
        ELSE Made(MkdirAll(f, Dir(targetPath)))
  IN Found(Lstat(f, targetPath))

\* a file entry's callback that stores the link relative to the link's
\* directory
LinkFileRelative(f, sourcePath, targetPath) ==
  LET Linked(mk, sl) ==
        IF sl.err # "" THEN Ret(mk.fs, Err("symlink", targetPath), FALSE)
        ELSE Ret(sl.fs, NoErr, FALSE)
      Made(mk) ==
        IF mk.err # "" THEN Ret(mk.fs, Err("mkdir", Dir(targetPath)), FALSE)
        ELSE Linked(mk, Symlink(mk.fs, P(FALSE, [k \in 1..(Len(Abs(targetPath).c) - 1) |-> DotDot] \o Abs(sourcePath).c), targetPath))
      Found(st) ==
        IF st.err = "" THEN
          IF st.node.kind = "symlink" /\ LinkAccepts(st.node.dest, sourcePath, targetPath)
            THEN Ret(f, NoErr, FALSE)
          ELSE Ret(f, Err("conflict", targetPath), FALSE)
        ELSE IF st.err # "ENOENT" THEN Ret(f, Err("stat", targetPath), FALSE)
        ELSE Made(MkdirAll(f, Dir(targetPath)))
  IN Found(Lstat(f, targetPath))

\* Link's callback from the conflict check on (a file entry)
LinkSymlinked(mk, sl, targetPath) ==
  IF sl.err # "" THEN Ret(mk.fs, Err("symlink", targetPath), FALSE)
  ELSE Ret(sl.fs, NoErr, FALSE)

\* a Link that writes the file's name alone as the link's destination
LinkParentMadeNamed(mk, sourcePath, targetPath) ==
  IF mk.err # "" THEN Ret(mk.fs, Err("mkdir", Dir(targetPath)), FALSE)
  ELSE LinkSymlinked(mk, Symlink(mk.fs, Rel(Dir(sourcePath), sourcePath), targetPath),
                     targetPath)

LinkParentMade(mk, sourcePath, targetPath) ==
  IF mk.err # "" THEN Ret(mk.fs, Err("mkdir", Dir(targetPath)), FALSE)
  ELSE LinkSymlinked(mk, Symlink(mk.fs, Abs(sourcePath), targetPath), targetPath)

\* a Link that puts its link in the place of whatever else is there
LinkFoundOver(f, sourcePath, targetPath, st) ==
  IF st.err = "" THEN
    IF st.node.kind = "symlink" /\ LinkAccepts(st.node.dest, sourcePath, targetPath)
      THEN Ret(f, NoErr, FALSE)
    ELSE Ret(Put(f, Resolve(f, targetPath, FALSE).at, LinkNode(Abs(sourcePath))),
             NoErr, FALSE)
  ELSE IF st.err # "ENOENT" THEN Ret(f, Err("stat", targetPath), FALSE)
  ELSE LinkParentMade(MkdirAll(f, Dir(targetPath)), sourcePath, targetPath)

LinkFound(f, sourcePath, targetPath, st) ==
  IF st.err = "" THEN
    IF st.node.kind = "symlink" /\ LinkAccepts(st.node.dest, sourcePath, targetPath)
      THEN Ret(f, NoErr, FALSE)
    ELSE Ret(f, Err("conflict", targetPath), FALSE)
  ELSE IF st.err # "ENOENT" THEN Ret(f, Err("stat", targetPath), FALSE)
  ELSE LinkParentMade(MkdirAll(f, Dir(targetPath)), sourcePath, targetPath)

LinkFile(f, sourcePath, targetPath) ==
  LinkFound(f, sourcePath, targetPath, Lstat(f, targetPath))

\* a Link callback that skips an ignored directory alone, not its subtree
LinkFnNoSkip(f, l, pkg, ignorePatterns, sourcePath, isDir) ==
  LET Made(targetPath, mk) ==
        IF mk.err # "" THEN Ret(mk.fs, Err("mkdir", targetPath), FALSE)
        ELSE Ret(mk.fs, NoErr, FALSE)
      Entry(relPath, targetPath) ==
        IF IsIgnored(ignorePatterns, relPath) THEN Ret(f, NoErr, FALSE)
        ELSE IF isDir THEN Made(targetPath, MkdirAll(f, targetPath))
        ELSE LinkFile(f, sourcePath, targetPath)
      Target(relPath) == Entry(relPath, Join(l.TargetDir, relPath))
  IN IF sourcePath = pkg.Path \/ Base(sourcePath) = IgnoreFileName
       THEN Ret(f, NoErr, FALSE)
     ELSE Target(Rel(pkg.Path, sourcePath))

\* the callback Link hands to filepath.WalkDir
LinkDirMade(targetPath, mk) ==
  IF mk.err # "" THEN Ret(mk.fs, Err("mkdir", targetPath), FALSE)
  ELSE Ret(mk.fs, NoErr, FALSE)

\* a Link callback without the ignore check
LinkEntryAll(f, ignorePatterns, sourcePath, isDir, relPath, targetPath) ==
  IF isDir THEN LinkDirMade(targetPath, MkdirAll(f, targetPath))
  ELSE LinkFile(f, sourcePath, targetPath)

LinkEntry(f, ignorePatterns, sourcePath, isDir, relPath, targetPath) ==
  IF IsIgnored(ignorePatterns, relPath) THEN Ret(f, NoErr, isDir)
  ELSE IF isDir THEN LinkDirMade(targetPath, MkdirAll(f, targetPath))
  ELSE LinkFile(f, sourcePath, targetPath)

LinkTarget(f, l, ignorePatterns, sourcePath, isDir, relPath) ==
  LinkEntry(f, ignorePatterns, sourcePath, isDir, relPath, Join(l.TargetDir, relPath))

\* a Link callback that skips the ignore file of the package root alone
LinkFnRootOnly(f, l, pkg, ignorePatterns, sourcePath, isDir) ==
  IF sourcePath = pkg.Path \/ sourcePath = Join(pkg.Path, Name(IgnoreFileName))
    THEN Ret(f, NoErr, FALSE)
  ELSE LinkTarget(f, l, ignorePatterns, sourcePath, isDir, Rel(pkg.Path, sourcePath))

LinkFn(f, l, pkg, ignorePatterns, sourcePath, isDir) ==
  IF sourcePath = pkg.Path \/ Base(sourcePath) = IgnoreFileName
    THEN Ret(f, NoErr, FALSE)
  ELSE LinkTarget(f, l, ignorePatterns, sourcePath, isDir, Rel(pkg.Path, sourcePath))

\* removeEmptyParents: the loop, from parentDir upwards
RECURSIVE RemoveUp(_, _, _)
RemovedUp(f, parentDir, absBaseDir, rm) ==
  IF rm.err = "" THEN RemoveUp(rm.fs, Dir(parentDir), absBaseDir) ELSE f

\* a climb that does not stop at the base directory
RemoveFromPastBase(f, parentDir, absBaseDir, absParentDir) ==
  IF \/ absParentDir.c = <<>>
     \/ ~StrHasPrefix(AbsString(absParentDir), AbsString(absBaseDir))
    THEN f
  ELSE RemovedUp(f, parentDir, absBaseDir, Remove(f, parentDir))

RemoveFrom(f, parentDir, absBaseDir, absParentDir) ==
  IF \/ Clean(absParentDir) = Clean(absBaseDir)
     \/ absParentDir.c = <<>>
     \/ ~StrHasPrefix(AbsString(absParentDir), AbsString(absBaseDir))
    THEN f
  ELSE RemovedUp(f, parentDir, absBaseDir, Remove(f, parentDir))

RemoveUp(f, parentDir, absBaseDir) ==
  RemoveFrom(f, parentDir, absBaseDir, Abs(parentDir))

removeEmptyParents(f, targetPath, baseDir) ==
  RemoveUp(f, Dir(targetPath), Abs(baseDir))

\* an Unlink callback without the ignore check
UnlinkFnAll(f, l, pkg, ignorePatterns, sourcePath, isDir) ==
  LET Removed(targetPath, rm) ==
        IF rm.err # "" /\ rm.err # "ENOENT" THEN Ret(f, Err("remove", targetPath), FALSE)
        ELSE Ret(removeEmptyParents(rm.fs, targetPath, l.TargetDir), NoErr, FALSE)
      Found(targetPath, st) ==
        IF st.err = "ENOENT" THEN Ret(f, NoErr, FALSE)
        ELSE IF st.err # "" THEN Ret(f, Err("stat", targetPath), FALSE)
        ELSE IF st.node.kind = "symlink" /\ UnlinkAccepts(st.node.dest, sourcePath)
          THEN Removed(targetPath, Remove(f, targetPath))
        ELSE Ret(f, NoErr, FALSE)
      Entry(relPath, targetPath) ==
        Found(targetPath, Lstat(f, targetPath))
      Target(relPath) == Entry(relPath, Join(l.TargetDir, relPath))
  IN IF sourcePath = pkg.Path \/ Base(sourcePath) = IgnoreFileName
       THEN Ret(f, NoErr, FALSE)
     ELSE Target(Rel(pkg.Path, sourcePath))

\* an Unlink callback that removes whatever it finds at the target path
UnlinkFnAny(f, l, pkg, ignorePatterns, sourcePath, isDir) ==
  LET Removed(targetPath, rm) ==
        IF rm.err # "" /\ rm.err # "ENOENT" THEN Ret(f, Err("remove", targetPath), FALSE)
        ELSE Ret(removeEmptyParents(rm.fs, targetPath, l.TargetDir), NoErr, FALSE)
      Found(targetPath, st) ==
        IF st.err = "ENOENT" THEN Ret(f, NoErr, FALSE)
        ELSE IF st.err # "" THEN Ret(f, Err("stat", targetPath), FALSE)
        ELSE IF TRUE
          THEN Removed(targetPath, Remove(f, targetPath))
        ELSE Ret(f, NoErr, FALSE)
      Entry(relPath, targetPath) ==
        IF IsIgnored(ignorePatterns, relPath) THEN Ret(f, NoErr, isDir)
        ELSE Found(targetPath, Lstat(f, targetPath))
      Target(relPath) == Entry(relPath, Join(l.TargetDir, relPath))
  IN IF sourcePath = pkg.Path \/ Base(sourcePath) = IgnoreFileName
       THEN Ret(f, NoErr, FALSE)
     ELSE Target(Rel(pkg.Path, sourcePath))

\* the file system os.Remove(targetPath) finds: the one Unlink looked at,
\* unless the other process has removed the link in between
Outrun(f, targetPath) ==
  IF targetPath \in rival THEN Remove(f, targetPath).fs ELSE f

\* an Unlink that fails when the link is gone before it removes it
UnlinkRemovedStrict(f, l, targetPath, rm) ==
  IF rm.err # "" THEN Ret(f, Err("remove", targetPath), FALSE)
  ELSE Ret(removeEmptyParents(rm.fs, targetPath, l.TargetDir), NoErr, FALSE)

\* the callback Unlink hands to filepath.WalkDir
UnlinkRemoved(f, l, targetPath, rm) ==
  IF rm.err # "" /\ rm.err # "ENOENT" THEN Ret(f, Err("remove", targetPath), FALSE)
  ELSE Ret(removeEmptyParents(rm.fs, targetPath, l.TargetDir), NoErr, FALSE)

UnlinkFound(f, l, sourcePath, targetPath, st) ==
  IF st.err = "ENOENT" THEN Ret(f, NoErr, FALSE)
  ELSE IF st.err # "" THEN Ret(f, Err("stat", targetPath), FALSE)
  ELSE IF st.node.kind = "symlink" /\ UnlinkAccepts(st.node.dest, sourcePath)
    THEN UnlinkRemoved(Outrun(f, targetPath), l, targetPath,
                       Remove(Outrun(f, targetPath), targetPath))
  ELSE Ret(f, NoErr, FALSE)

UnlinkEntry(f, l, ignorePatterns, sourcePath, isDir, relPath, targetPath) ==
  IF IsIgnored(ignorePatterns, relPath) THEN Ret(f, NoErr, isDir)
  ELSE UnlinkFound(f, l, sourcePath, targetPath, Lstat(f, targetPath))

UnlinkTarget(f, l, ignorePatterns, sourcePath, isDir, relPath) ==
  UnlinkEntry(f, l, ignorePatterns, sourcePath, isDir, relPath, Join(l.TargetDir, relPath))

UnlinkFn(f, l, pkg, ignorePatterns, sourcePath, isDir) ==
  IF sourcePath = pkg.Path \/ Base(sourcePath) = IgnoreFileName
    THEN Ret(f, NoErr, FALSE)
  ELSE UnlinkTarget(f, l, ignorePatterns, sourcePath, isDir, Rel(pkg.Path, sourcePath))

Callback(op, f, l, pkg, ignorePatterns, sourcePath, isDir) ==
  IF op = "Link" THEN LinkFn(f, l, pkg, ignorePatterns, sourcePath, isDir)
  ELSE UnlinkFn(f, l, pkg, ignorePatterns, sourcePath, isDir)

\* filepath.WalkDir's walkDir: the callback on the entry, then, for a
\* directory the callback did not skip, its entries in name order; the
\* first error ends the walk
RECURSIVE walkDir(_, _, _, _, _, _, _)
RECURSIVE walkEntries(_, _, _, _, _, _, _)
walkRead(op, l, pkg, ignorePatterns, path, r, rd) ==
  IF rd.err # "" THEN Ret(r.fs, Err("walk", path), FALSE)
  ELSE walkEntries(op, r.fs, l, pkg, ignorePatterns, path, rd.entries)

walkCalled(op, l, pkg, ignorePatterns, path, isDir, r) ==
  IF r.err # NoErr \/ ~isDir \/ r.skip THEN Ret(r.fs, r.err, FALSE)
  ELSE walkRead(op, l, pkg, ignorePatterns, path, r, ReadDir(r.fs, path))

\* a walk that calls the callback on a directory after its entries
walkDirAfter(op, f, l, pkg, ignorePatterns, path, isDir) ==
  IF ~isDir
    THEN walkCalled(op, l, pkg, ignorePatterns, path, isDir,
                    Callback(op, f, l, pkg, ignorePatterns, path, isDir))
  ELSE IF walkRead(op, l, pkg, ignorePatterns, path, Ret(f, NoErr, FALSE),
                   ReadDir(f, path)).err # NoErr
    THEN walkRead(op, l, pkg, ignorePatterns, path, Ret(f, NoErr, FALSE), ReadDir(f, path))
  ELSE Ret(Callback(op, walkRead(op, l, pkg, ignorePatterns, path, Ret(f, NoErr, FALSE),
                                 ReadDir(f, path)).fs,
                    l, pkg, ignorePatterns, path, isDir).fs,
           Callback(op, walkRead(op, l, pkg, ignorePatterns, path, Ret(f, NoErr, FALSE),
                                 ReadDir(f, path)).fs,
                    l, pkg, ignorePatterns, path, isDir).err,
           FALSE)

walkDir(op, f, l, pkg, ignorePatterns, path, isDir) ==
  walkCalled(op, l, pkg, ignorePatterns, path, isDir,
             Callback(op, f, l, pkg, ignorePatterns, path, isDir))

\* a walk that goes on to the entries left after an error and returns the
\* error at the end
walkNextOn(op, l, pkg, ignorePatterns, dir, entries, r) ==
  IF r.err # NoErr
    THEN Ret(walkEntries(op, r.fs, l, pkg, ignorePatterns, dir, Tail(entries)).fs,
             r.err, FALSE)
  ELSE walkEntries(op, r.fs, l, pkg, ignorePatterns, dir, Tail(entries))

walkNext(op, l, pkg, ignorePatterns, dir, entries, r) ==
  IF r.err # NoErr THEN r
  ELSE walkEntries(op, r.fs, l, pkg, ignorePatterns, dir, Tail(entries))

walkEntry(op, f, l, pkg, ignorePatterns, dir, entries, d1) ==
  walkNext(op, l, pkg, ignorePatterns, dir, entries,
           walkDir(op, f, l, pkg, ignorePatterns, Join(dir, Name(d1.name)), d1.isDir))

walkEntries(op, f, l, pkg, ignorePatterns, dir, entries) ==
  IF entries = <<>> THEN Ret(f, NoErr, FALSE)
  ELSE walkEntry(op, f, l, pkg, ignorePatterns, dir, entries, Head(entries))

\* filepath.WalkDir(pkg.Path, fn)
WalkRoot(op, f, l, pkg, ignorePatterns, st) ==
  IF st.err # "" THEN Ret(f, Err("walk", pkg.Path), FALSE)
  ELSE walkDir(op, f, l, pkg, ignorePatterns, pkg.Path, st.node.kind = "dir")

WalkDir(op, f, l, pkg, ignorePatterns) ==
  WalkRoot(op, f, l, pkg, ignorePatterns, Lstat(f, pkg.Path))

\* the loop over packageNames in Link and in Unlink: look the name up,
\* load its patterns, walk it; the first error ends the call
RECURSIVE EachPackage(_, _, _, _, _)
PackageWalked(op, l, allPackages, packageNames, w) ==
  IF w.err # NoErr THEN [fs |-> w.fs, err |-> w.err]
  ELSE EachPackage(op, w.fs, l, allPackages, Tail(packageNames))

PackageLoaded(op, f, l, allPackages, packageNames, pkg, ig) ==
  IF ig.err # NoErr THEN [fs |-> f, err |-> ig.err]
  ELSE PackageWalked(op, l, allPackages, packageNames, WalkDir(op, f, l, pkg, ig.patterns))

\* a lookup that passes over a name that is no package
PackageLookedOver(op, f, l, allPackages, packageNames, name, found) ==
  IF found = <<>> THEN EachPackage(op, f, l, allPackages, Tail(packageNames))
  ELSE PackageLoaded(op, f, l, allPackages, packageNames, found[1],
                     loadIgnorePatterns(f, found[1].Path))

PackageLooked(op, f, l, allPackages, packageNames, name, found) ==
  IF found = <<>> THEN [fs |-> f, err |-> Err("packageNotFound", Name(name))]
  ELSE PackageLoaded(op, f, l, allPackages, packageNames, found[1],
                     loadIgnorePatterns(f, found[1].Path))

PackageNamed(op, f, l, allPackages, packageNames, name) ==
  PackageLooked(op, f, l, allPackages, packageNames, name,
                SelectSeq(allPackages, LAMBDA pk : pk.Name = name))

EachPackage(op, f, l, allPackages, packageNames) ==
  IF packageNames = <<>> THEN [fs |-> f, err |-> NoErr]
  ELSE PackageNamed(op, f, l, allPackages, packageNames, Head(packageNames))

\* a call that goes on after the catalog has failed
RunFoundOn(op, f, l, packageNames, all) ==
  EachPackage(op, f, l, all.packages, packageNames)

\* Linker.Link and Linker.Unlink: [fs, err]
RunFound(op, f, l, packageNames, all) ==
  IF all.err # NoErr THEN [fs |-> f, err |-> all.err]
  ELSE EachPackage(op, f, l, all.packages, packageNames)

Run(op, f, l, packageNames) == RunFound(op, f, l, packageNames, FindPackages(f, l))

LinkOp(f, l, packageNames) == Run("Link", f, l, packageNames)

UnlinkOp(f, l, packageNames) == Run("Unlink", f, l, packageNames)

\* a relink that links whatever Unlink returned
relinkedOn(l, packageNames, un) == LinkOp(un.fs, l, packageNames)

\* main's performAction: relink is Unlink and, when that returned no error,
\* Link
relinked(l, packageNames, un) ==
  IF un.err # NoErr THEN un ELSE LinkOp(un.fs, l, packageNames)

performAction(f, l, action, packageNames) ==
  IF action = "link" THEN LinkOp(f, l, packageNames)
  ELSE IF action = "unlink" THEN UnlinkOp(f, l, packageNames)
  ELSE IF action = "relink" THEN relinked(l, packageNames, UnlinkOp(f, l, packageNames))
  ELSE [fs |-> f, err |-> Err("unknownAction", NoDest)]

\* main's simulateAction: it prints what was asked for
simulateAction(f) == [fs |-> f, err |-> NoErr]

\* main's validateFlags: [action, err] from the action flags given (-D
\* for unlink, -GL or --gslk for link, -R for relink) and the arguments
validateFlags(given, packageNames) ==
  IF \E i \in DOMAIN packageNames : StrHasPrefix(packageNames[i], <<"-">>)
    THEN [action |-> "", err |-> Err("flagAsPackage", NoDest)]
  ELSE IF packageNames = <<>> THEN [action |-> "", err |-> Err("noPackageName", NoDest)]
  ELSE IF Cardinality(given) > 1 THEN [action |-> "", err |-> Err("actionConflict", NoDest)]
  ELSE [action |-> IF "unlink" \in given THEN "unlink"
                   ELSE IF "relink" \in given THEN "relink" ELSE "link",
        err |-> NoErr]

\* a main that pays no attention to the dry-run flag
mainRunAlways(f, l, action, noop, packageNames) ==
  performAction(f, l, action, packageNames)

\* main from the dry-run check on: [fs, err], err being what decides the
\* exit status
mainRun(f, l, action, noop, packageNames) ==
  IF noop THEN simulateAction(f) ELSE performAction(f, l, action, packageNames)

----------------------------------------------------------------------------
(* The world of the model: a source root with two packages, a target root, *)
(* a directory outside both                                                *)

W == <<"w">>
S == <<"s">>
T == <<"t">>
E == <<"e">>
Pp == <<"p">>
Qq == <<"q">>
Zz == <<"z">>
Dd == <<"d">>
Mm == <<"m">>
Uu == <<"u">>
Ff == <<"f">>
At == <<"a", ".", "t">>
Ax == <<"a", ".", "x">>
Bx == <<"b", ".", "x">>
Cx == <<"c", ".", "x">>
Ex == <<"e", ".", "x">>

SourceRoot == <<W, S>>
TargetRoot == <<W, T>>
Elsewhere == <<W, E>>

\* package p: a.t, a.x, d/a.t, d/b.x, e.x and the empty directory m;
\* package q: d/c.x
SourceTree ==
  {<<SourceRoot, DirNode>>,
   <<SourceRoot \o <<Pp>>, DirNode>>,
   <<SourceRoot \o <<Pp, At>>, FileNode(<<At>>)>>,
   <<SourceRoot \o <<Pp, Ax>>, FileNode(<<Ax>>)>>,
   <<SourceRoot \o <<Pp, Dd>>, DirNode>>,
   <<SourceRoot \o <<Pp, Dd, At>>, FileNode(<<Dd, At>>)>>,
   <<SourceRoot \o <<Pp, Dd, Bx>>, FileNode(<<Dd, Bx>>)>>,
   <<SourceRoot \o <<Pp, Ex>>, FileNode(<<Ex>>)>>,
   <<SourceRoot \o <<Pp, Mm>>, DirNode>>,
   <<SourceRoot \o <<Qq>>, DirNode>>,
   <<SourceRoot \o <<Qq, Dd>>, DirNode>>,
   <<SourceRoot \o <<Qq, Dd, Cx>>, FileNode(<<Cx>>)>>}

OutsideTree ==
  {<<<<>>, DirNode>>,
   <<<<W>>, DirNode>>,
   <<TargetRoot, DirNode>>,
   <<Elsewhere, DirNode>>,
   <<Elsewhere \o <<At>>, FileNode(<<Ff>>)>>,
   <<Elsewhere \o <<Ff>>, FileNode(<<Ff>>)>>}

\* the contents p's ignore file can have (its lines); 0: p has none
IgnoreFiles ==
  << << <<"*", ".", "t">> >>,
     << At >>,
     << <<"d", "/", "a", ".", "t">> >>,
     << Dd >>,
     << <<"[">>, <<"?", ".", "t">> >>,
     << <<"#", " ", "d">>, <<>>, <<" ", "m", " ">> >>,
     << <<"*", "/", "a", ".", "t">>, <<"[", "^", "b", "-", "d", "]", ".", "x">> >> >>

IgnoreTree(i) ==
  IF i = 0 THEN {}
  ELSE {<<SourceRoot \o <<Pp, IgnoreFileName>>, FileNode(IgnoreFiles[i])>>}

\* what the target tree can hold before the first call: each group is a
\* set of entries
PreGroups ==
  << {<<TargetRoot \o <<Ax>>, FileNode(<<Uu>>)>>},
    {<<TargetRoot \o <<Ax>>, LinkNode(P(TRUE, SourceRoot \o <<Pp, Ax>>))>>},
    {<<TargetRoot \o <<Ax>>, LinkNode(P(FALSE, <<DotDot, S, Pp, Ax>>))>>},
    {<<TargetRoot \o <<Ax>>, LinkNode(P(FALSE, <<S, Pp, Ax>>))>>},
    {<<TargetRoot \o <<Ax>>, LinkNode(P(TRUE, Elsewhere \o <<Ff>>))>>},
    {<<TargetRoot \o <<Dd>>, DirNode>>,
             <<TargetRoot \o <<Dd, Uu>>, FileNode(<<Uu>>)>>},
    {<<TargetRoot \o <<Dd>>, LinkNode(P(TRUE, Elsewhere))>>},
    {<<TargetRoot \o <<Dd>>, FileNode(<<Uu>>)>>},
    {<<TargetRoot \o <<Uu>>, FileNode(<<Uu>>)>>},
    {<<TargetRoot \o <<At>>, LinkNode(P(TRUE, SourceRoot \o <<Pp, At>>))>>},
    {<<TargetRoot \o <<Dd>>, DirNode>>,
              <<TargetRoot \o <<Dd, Bx>>, LinkNode(P(TRUE, SourceRoot \o <<Pp, Dd, Bx>>))>>},
    {<<TargetRoot \o <<Dd>>, DirNode>>},
    {<<TargetRoot \o <<Ax>>, FileNode(<<Uu>>)>>,
     <<TargetRoot \o <<Dd>>, DirNode>>,
     <<TargetRoot \o <<Dd, Bx>>, FileNode(<<Uu>>)>>},
    {<<TargetRoot \o <<Dd>>, FileNode(<<Uu>>)>>,
     <<TargetRoot \o <<Ex>>, FileNode(<<Uu>>)>>},
    {<<TargetRoot \o <<Dd>>, DirNode>>,
     <<TargetRoot \o <<Dd, Cx>>, FileNode(<<Uu>>)>>},
    {<<TargetRoot \o <<Dd>>, DirNode>>,
     <<TargetRoot \o <<Dd, Bx>>, LinkNode(P(TRUE, SourceRoot \o <<Pp, Dd, Bx>>))>>,
     <<TargetRoot \o <<Dd, Uu>>, FileNode(<<Uu>>)>>} >>

PreTree(G) == UNION {PreGroups[g] : g \in G}

\* no path with two different nodes
Consistent(tree) == \A x \in tree, y \in tree : x[1] = y[1] => x = y

MakeFs(tree) == [at \in {x[1] : x \in tree} |-> (CHOOSE x \in tree : x[1] = at)[2]]

\* the -s and -t flag values main is started with: absolute or relative to
\* the working directory
SourceFlags == {P(TRUE, SourceRoot), P(FALSE, <<S>>)}

TargetFlags == {P(TRUE, TargetRoot), P(FALSE, <<T>>)}

\* the Linker main builds: both directories made absolute
Linkers ==
  {[SourceDir |-> Abs(s), TargetDir |-> Abs(t)] : s \in SourceFlags, t \in TargetFlags}

\* the package lists a call is given
NameLists == {<<Pp>>, <<Pp, Qq>>, <<Zz>>}

----------------------------------------------------------------------------
(* The state machine                                                       *)

Init ==
  /\ linker \in Linkers
  /\ \E i \in {0} \cup DOMAIN IgnoreFiles, G \in SUBSET (DOMAIN PreGroups) :
       /\ Cardinality(G) <= MaxPre
       /\ Consistent(PreTree(G))
       /\ fs = MakeFs(SourceTree \cup OutsideTree \cup IgnoreTree(i) \cup PreTree(G))
  /\ log = <<>>
  /\ rival = {}

\* the log after a call: the call, its error and the file system before it
Logged(op, packageNames, err) ==
  Append(log, [op |-> op, names |-> packageNames, err |-> err, pre |-> fs])

\* what a call does to the state: the file system it leaves, and its entry
\* in the log
Returns(op, packageNames, r) ==
  /\ fs' = r.fs
  /\ log' = Logged(op, packageNames, r.err)
  /\ UNCHANGED <<linker, rival>>

\* a call of Linker.Link
Link ==
  \E packageNames \in NameLists :
    /\ Len(log) < MaxOps
    /\ Returns("Link", packageNames, LinkOp(fs, linker, packageNames))

\* a call of Linker.Unlink
Unlink ==
  \E packageNames \in NameLists :
    /\ Len(log) < MaxOps
    /\ Returns("Unlink", packageNames, UnlinkOp(fs, linker, packageNames))

Next == Link \/ Unlink

Spec == Init /\ [][Next]_vars

\* patterns for p's ignore file besides those of IgnoreFiles
GlobCases ==
  { <<"*">>, <<"?">>, <<"d">>, <<"d", "/">>, <<"d", "*">>, <<"d", "/", "*">>,
    <<"*", "/", "*">>, <<"*", "x">>, <<"?", "/", "?", ".", "x">>,
    <<"a", ".", "?">>, <<"*", ".", "*">>, <<"*", "a", "*", "t">>,
    <<"[", "a", "-", "c", "]", ".", "x">>, <<"[", "^", "a", "]", "*">>,
    <<"d", "[", "/", "]", "b", ".", "x">>, <<"\\", "a", ".", "t">>,
    <<"a", "\\">>, <<"*", "[">>, <<"a", "[">>, <<"[", "]">>, <<"[", "^", "]">>,
    <<"[", "a", "-", "]">>, <<"[", "-", "a", "]">>, <<"d", "/", "[">>,
    <<"x", "/", "a", ".", "t">>, <<"p", "/", "a", ".", "t">>,
    <<".", "g", "s", "l", "k", "-", "i", "g", "n", "o", "r", "e">> }

\* the runs on an empty target tree, p's ignore file holding the lines of
\* one of IgnoreFiles or one pattern of GlobCases
GlobInit ==
  /\ linker \in Linkers
  /\ \E lines \in {IgnoreFiles[i] : i \in DOMAIN IgnoreFiles} \cup {<<g>> : g \in GlobCases} :
       fs = MakeFs(SourceTree \cup OutsideTree
                   \cup {<<SourceRoot \o <<Pp, IgnoreFileName>>, FileNode(lines)>>})
  /\ log = <<>>
  /\ rival = {}

GlobSpec == GlobInit /\ [][Next]_vars

\* main's exit status for what the run returned
exitStatus(r) == IF r.err # NoErr THEN 1 ELSE 0

\* main once the flags are validated: an invalid invocation ends the run
mainValidated(f, l, v, noop, packageNames) ==
  IF v.err # NoErr THEN [fs |-> f, err |-> v.err]
  ELSE mainRun(f, l, v.action, noop, packageNames)

\* one run of the command: the action flags given, the -n and -f flags,
\* the arguments
Actions == {"link", "unlink", "relink"}

FlagSets == [n : BOOLEAN, f : BOOLEAN]

ArgLists ==
  {<<>>, <<Pp>>, <<Pp, Zz>>, <<Zz, Pp>>, <<Qq, Pp>>, <<Qq, Zz, Pp>>, <<Pp, <<"-", "n">>>>}

\* the runs of the command start with p's ignore file absent or holding
\* the first of IgnoreFiles
MainInit ==
  /\ linker \in Linkers
  /\ \E i \in {0, 1}, G \in SUBSET (DOMAIN PreGroups) :
       /\ Cardinality(G) <= MaxPre
       /\ Consistent(PreTree(G))
       /\ fs = MakeFs(SourceTree \cup OutsideTree \cup IgnoreTree(i) \cup PreTree(G))
  /\ log = <<>>
  /\ rival = {}

\* what a run of main does to the state
Exits(action, given, flags, packageNames, r) ==
  /\ fs' = r.fs
  /\ log' = Append(log, [op |-> action, names |-> packageNames, err |-> r.err,
                         pre |-> fs, noop |-> flags.n, force |-> flags.f,
                         given |-> given, status |-> exitStatus(r)])
  /\ UNCHANGED <<linker, rival>>

\* the one run of main a process makes
Main ==
  \E given \in SUBSET Actions, flags \in FlagSets, packageNames \in ArgLists :
    /\ log = <<>>
    /\ Exits(validateFlags(given, packageNames).action, given, flags, packageNames,
             mainValidated(fs, linker, validateFlags(given, packageNames),
                           flags.n, packageNames))

MainSpec == MainInit /\ [][Main]_vars

\* the source roots the catalog is read from: the source root, a package
\* of it (its directories d and m are then the packages), a directory with
\* one subdirectory, an empty directory, a directory of files only, a
\* regular file, a path that does not exist
CatalogSources ==
  {SourceRoot, SourceRoot \o <<Pp>>, SourceRoot \o <<Qq>>, SourceRoot \o <<Pp, Mm>>,
   Elsewhere, Elsewhere \o <<Ff>>, <<W, Zz>>}

CatalogLinkers ==
  {[SourceDir |-> Abs(P(TRUE, s)), TargetDir |-> Abs(P(TRUE, TargetRoot))] :
     s \in CatalogSources}

\* what the source root holds besides its packages: nothing, a regular
\* file z, a symbolic link z to a directory
CatalogExtras ==
  {{}, {<<SourceRoot \o <<Zz>>, FileNode(<<Zz>>)>>},
       {<<SourceRoot \o <<Zz>>, LinkNode(P(TRUE, Elsewhere))>>}}

\* what the target root holds: nothing, or a link to a file of p
CatalogGroups == {{}, {2}}

CatalogInit ==
  /\ linker \in CatalogLinkers
  /\ \E extra \in CatalogExtras, G \in CatalogGroups :
       fs = MakeFs(SourceTree \cup OutsideTree \cup extra \cup PreTree(G))
  /\ log = <<>>
  /\ rival = {}

CatalogSpec == CatalogInit /\ [][Next]_vars

\* the lines an ignore file is made of: empty, blank, a comment, a comment
\* after a space, a pattern, a pattern between spaces
IgnoreLines ==
  {<<>>, <<" ">>, <<"#", "d">>, <<" ", "#", "d">>, <<"m">>, <<" ", "m", " ">>}

MaxLines == 2

IgnoreContents == UNION {[1..k -> IgnoreLines] : k \in 0..MaxLines}

\* p has no ignore file, or one of these contents
IgnoreInit ==
  /\ linker = [SourceDir |-> Abs(P(TRUE, SourceRoot)), TargetDir |-> Abs(P(TRUE, TargetRoot))]
  /\ \/ fs = MakeFs(SourceTree \cup OutsideTree)
     \/ \E lines \in IgnoreContents :
          fs = MakeFs(SourceTree \cup OutsideTree
                      \cup {<<SourceRoot \o <<Pp, IgnoreFileName>>, FileNode(lines)>>})
  /\ log = <<>>
  /\ rival = {}

IgnoreSpec == IgnoreInit /\ [][Next]_vars

\* target trees in which the target path of a directory of p is taken: by
\* a symbolic link to that directory of the source, absolute or relative,
\* by a link elsewhere, by a regular file, by a directory with or without
\* entries
FoldedTrees ==
  {{<<TargetRoot \o <<Dd>>, LinkNode(P(TRUE, SourceRoot \o <<Pp, Dd>>))>>},
   {<<TargetRoot \o <<Mm>>, LinkNode(P(TRUE, SourceRoot \o <<Pp, Mm>>))>>},
   {<<TargetRoot \o <<Dd>>, LinkNode(P(FALSE, <<DotDot, S, Pp, Dd>>))>>},
   PreGroups[6], PreGroups[7], PreGroups[8], PreGroups[11], PreGroups[12], PreGroups[16]}

FoldedInit ==
  /\ linker = [SourceDir |-> Abs(P(TRUE, SourceRoot)), TargetDir |-> Abs(P(TRUE, TargetRoot))]
  /\ \E tree \in FoldedTrees : fs = MakeFs(SourceTree \cup OutsideTree \cup tree)
  /\ log = <<>>
  /\ rival = {}

FoldedSpec == FoldedInit /\ [][Next]_vars

\* a source whose package p has a directory m in its directory d, and a
\* directory beside the target root whose name begins with the root's
DeepTree ==
  SourceTree \cup OutsideTree
    \cup {<<SourceRoot \o <<Pp, Dd, Mm>>, DirNode>>,
          <<SourceRoot \o <<Pp, Dd, Mm, Cx>>, FileNode(<<Cx>>)>>,
          <<<<W, T \o <<"x">>>>, DirNode>>}

\* target trees for it: empty; p linked; d a symbolic link to a directory
\* elsewhere; the same with p linked through it
DeepTargets ==
  {{},
   {<<TargetRoot \o <<Dd>>, DirNode>>,
    <<TargetRoot \o <<Dd, Mm>>, DirNode>>,
    <<TargetRoot \o <<Dd, Mm, Cx>>, LinkNode(P(TRUE, SourceRoot \o <<Pp, Dd, Mm, Cx>>))>>},
   {<<TargetRoot \o <<Dd>>, LinkNode(P(TRUE, Elsewhere))>>},
   {<<TargetRoot \o <<Dd>>, LinkNode(P(TRUE, Elsewhere))>>,
    <<Elsewhere \o <<Mm>>, DirNode>>,
    <<Elsewhere \o <<Mm, Cx>>, LinkNode(P(TRUE, SourceRoot \o <<Pp, Dd, Mm, Cx>>))>>}}

DeepInit ==
  /\ linker = [SourceDir |-> Abs(P(TRUE, SourceRoot)), TargetDir |-> Abs(P(TRUE, TargetRoot))]
  /\ \E tree \in DeepTargets : fs = MakeFs(DeepTree \cup tree)
  /\ log = <<>>
  /\ rival = {}

DeepSpec == DeepInit /\ [][Next]_vars

\* patterns filepath.Match rejects
BadPatterns == {<<"[">>, <<"a", "\\">>, <<"*", "[">>, <<"[", "a", "-", "]">>}

\* patterns it takes
GoodPatterns == {<<"*", ".", "t">>, Dd, Ax}

\* the ignore files made of them: one pattern, or a rejected one before or
\* after a pattern that is taken
PatternContents ==
  {<<g>> : g \in BadPatterns \cup GoodPatterns}
    \cup {<<b, g>> : b \in BadPatterns, g \in GoodPatterns}
    \cup {<<g, b>> : b \in BadPatterns, g \in GoodPatterns}

PatternInit ==
  /\ linker = [SourceDir |-> Abs(P(TRUE, SourceRoot)), TargetDir |-> Abs(P(TRUE, TargetRoot))]
  /\ \E lines \in PatternContents :
       fs = MakeFs(SourceTree \cup OutsideTree
                   \cup {<<SourceRoot \o <<Pp, IgnoreFileName>>, FileNode(lines)>>})
  /\ log = <<>>
  /\ rival = {}

PatternSpec == PatternInit /\ [][Next]_vars

\* two packages with files at the same relative paths: q has a.x and
\* d/b.x as p has; p without ignore file, or ignoring d, or a.x and e.x
OverlapInit ==
  /\ linker = [SourceDir |-> P(TRUE, SourceRoot), TargetDir |-> P(TRUE, TargetRoot)]
  /\ \E i \in {0, 4, 7}, G \in SUBSET (DOMAIN PreGroups) :
       /\ Cardinality(G) <= MaxPre
       /\ Consistent(PreTree(G))
       /\ fs = MakeFs(SourceTree \cup OutsideTree \cup IgnoreTree(i) \cup PreTree(G)
                      \cup {<<SourceRoot \o <<Qq, Ax>>, FileNode(<<Qq, Ax>>)>>,
                            <<SourceRoot \o <<Qq, Dd, Bx>>, FileNode(<<Qq, Bx>>)>>})
  /\ log = <<>>
  /\ rival = {}

OverlapSpec == OverlapInit /\ [][Next]_vars

\* ignore files below the package root: p has d/.gslk-ignore, a file with
\* the pattern b.x, and m/.gslk-ignore, a directory with the file c.x; its
\* own ignore file is absent or holds a.t.  The target is empty, or holds
\* a link to one of the ignore files or a file in a.x's place, or is
\* itself a symbolic link to the package
NestedTargets ==
  {{<<TargetRoot, DirNode>>},
   {<<TargetRoot, DirNode>>,
    <<TargetRoot \o <<Dd>>, DirNode>>,
    <<TargetRoot \o <<Dd, IgnoreFileName>>,
      LinkNode(P(TRUE, SourceRoot \o <<Pp, Dd, IgnoreFileName>>))>>},
   {<<TargetRoot, DirNode>>,
    <<TargetRoot \o <<IgnoreFileName>>,
      LinkNode(P(TRUE, SourceRoot \o <<Pp, IgnoreFileName>>))>>},
   {<<TargetRoot, DirNode>>, <<TargetRoot \o <<Ax>>, FileNode(<<Uu>>)>>},
   {<<TargetRoot, LinkNode(P(TRUE, SourceRoot \o <<Pp>>))>>}}

NestedInit ==
  /\ linker = [SourceDir |-> P(TRUE, SourceRoot), TargetDir |-> P(TRUE, TargetRoot)]
  /\ \E i \in {0, 2}, t \in NestedTargets :
       fs = MakeFs(SourceTree \cup (OutsideTree \ {<<TargetRoot, DirNode>>})
                   \cup IgnoreTree(i) \cup t
                   \cup {<<SourceRoot \o <<Pp, Dd, IgnoreFileName>>, FileNode(<<Bx>>)>>,
                         <<SourceRoot \o <<Pp, Mm, IgnoreFileName>>, DirNode>>,
                         <<SourceRoot \o <<Pp, Mm, IgnoreFileName, Cx>>,
                           FileNode(<<Cx>>)>>})
  /\ log = <<>>
  /\ rival = {}

NestedSpec == NestedInit /\ [][Next]_vars

\* Unlink racing with another process: the links of p that the process
\* removes as soon as Unlink has looked at them
RivalPaths ==
  {P(TRUE, TargetRoot \o <<Ax>>), P(TRUE, TargetRoot \o <<Dd, At>>),
   P(TRUE, TargetRoot \o <<Dd, Bx>>)}

RaceInit ==
  /\ linker = [SourceDir |-> P(TRUE, SourceRoot), TargetDir |-> P(TRUE, TargetRoot)]
  /\ \E G \in SUBSET (DOMAIN PreGroups) :
       /\ Cardinality(G) <= MaxPre
       /\ Consistent(PreTree(G))
       /\ fs = MakeFs(SourceTree \cup OutsideTree \cup PreTree(G))
  /\ log = <<>>
  /\ rival \in SUBSET RivalPaths

RaceSpec == RaceInit /\ [][Next]_vars

----------------------------------------------------------------------------
(* Notions the properties are stated in                                    *)

\* the file system after the n-th call of the log
After(n) == IF n = Len(log) THEN fs ELSE log[n + 1].pre

\* the n-th call was op on exactly the package name
IsCall(n, op, name) == log[n].op = op /\ log[n].names = <<name>>

Ok(n) == log[n].err = NoErr

PkgPath(name) == Join(linker.SourceDir, Name(name))

PkgRoot(name) == Abs(PkgPath(name)).c

\* the entries of package name in file system f (the package root apart)
PkgEntries(f, name) ==
  {x \in DOMAIN f : Len(x) > Len(PkgRoot(name))
                    /\ SubSeq(x, 1, Len(PkgRoot(name))) = PkgRoot(name)}

RelOf(name, x) == P(FALSE, Drop(x, Len(PkgRoot(name))))

SourceOf(name, x) == Join(PkgPath(name), RelOf(name, x))

TargetOf(name, x) == Join(linker.TargetDir, RelOf(name, x))

PatternsOf(f, name) == loadIgnorePatterns(f, PkgPath(name)).patterns

HasIgnoreFile(f, name) == PkgRoot(name) \o <<IgnoreFileName>> \in DOMAIN f

\* the entry itself matches a pattern of its package
SelfIgnored(f, name, x) == IsIgnored(PatternsOf(f, name), RelOf(name, x))

\* the entry is ignored: it matches, or lies below a directory that does
Ignored(f, name, x) ==
  \E k \in 1..Len(RelOf(name, x).c) :
    IsIgnored(PatternsOf(f, name), P(FALSE, SubSeq(RelOf(name, x).c, 1, k)))

\* the entry is planned: not ignored, and not an ignore file
Planned(f, name, x) ==
  /\ x \in PkgEntries(f, name)
  /\ x[Len(x)] # IgnoreFileName
  /\ ~Ignored(f, name, x)

IsFile(f, x) == f[x].kind # "dir"

\* where a symbolic link at path at with stored destination dest leads
LeadsTo(dest, at) == IF dest.abs THEN Clean(dest) ELSE Abs(Join(Dir(at), dest))

\* what is at the target path of entry x in file system f
AtTarget(f, name, x) == Lstat(f, TargetOf(name, x))

\* the target path of entry x holds a link to x: a symbolic link that
\* leads to x's source file, or whose stored destination is the source
\* path as Link writes it
HoldsLinkTo(f, name, x) ==
  LET st == AtTarget(f, name, x) IN
    /\ st.err = ""
    /\ st.node.kind = "symlink"
    /\ \/ LeadsTo(st.node.dest, Abs(TargetOf(name, x))) = Abs(SourceOf(name, x))
       \/ st.node.dest = SourceOf(name, x)

Calls == 1..Len(log)

Packages == {Pp, Qq}

Files(f, name) == {x \in PkgEntries(f, name) : IsFile(f, x)}

PlannedFiles(f, name) == {x \in Files(f, name) : Planned(f, name, x)}

\* the n-th call left at x's target path what it found there
Unchanged(n, name, x) ==
  AtTarget(After(n), name, x) = AtTarget(log[n].pre, name, x)

\* nothing is at x's target path
Absent(f, name, x) == AtTarget(f, name, x).err = "ENOENT"

\* the n-th call was a Link of one package that succeeded and the next an
\* Unlink of the same package
LinkThenUnlink(n, name) ==
  /\ n + 1 \in Calls
  /\ IsCall(n, "Link", name) /\ Ok(n)
  /\ IsCall(n + 1, "Unlink", name)

\* x's target path holds a symbolic link whose stored destination, made
\* absolute against the working directory, is x's absolute source path
CwdLinkTo(f, name, x) ==
  /\ AtTarget(f, name, x).err = ""
  /\ AtTarget(f, name, x).node.kind = "symlink"
  /\ Abs(AtTarget(f, name, x).node.dest) = Abs(SourceOf(name, x))

\* something other than a link to x is at x's target path
Occupied(f, name, x) ==
  AtTarget(f, name, x).err = "" /\ ~HoldsLinkTo(f, name, x)

\* the n-th call returned the conflict error that names x's target path
ConflictAt(n, name, x) == log[n].err = Err("conflict", TargetOf(name, x))

\* the order in which a walk meets two paths (their components)
RECURSIVE WalkBefore(_, _)
WalkBefore(x, y) ==
  IF x = <<>> THEN y # <<>>
  ELSE IF y = <<>> THEN FALSE
  ELSE IF Head(x) = Head(y) THEN WalkBefore(Tail(x), Tail(y))
  ELSE StrLess(Head(x), Head(y))

----------------------------------------------------------------------------
----------------------------------------------------------------------------
----------------------------------------------------------------------------
(* C3 Conflict detection, as claimed: whenever the target path of a        *)
(* planned file of p holds anything but a link to that file, Link([p])     *)
(* returns the conflict error naming that target path and leaves what is   *)
(* there unchanged.                                                        *)
ConflictNamesEach ==
  \A n \in Calls : \A name \in Packages :
    IsCall(n, "Link", name) =>
      \A x \in PlannedFiles(fs, name) :
        Occupied(log[n].pre, name, x)
          => (ConflictAt(n, name, x) /\ Unchanged(n, name, x))

\* the planned files of name whose target paths are occupied before call n
OccupiedAt(n, name) ==
  {x \in PlannedFiles(fs, name) : Occupied(log[n].pre, name, x)}

\* the first of them in walk order
FirstOccupied(n, name) ==
  CHOOSE x \in OccupiedAt(n, name) :
    \A y \in OccupiedAt(n, name) \ {x} : WalkBefore(x, y)

(* C3 Conflict detection, amended: when target paths of planned files of   *)
(* p hold anything but a link to the file, Link([p]) fails: with the       *)
(* conflict error naming the first such target path in walk order, or,     *)
(* before it gets there, with another error at an earlier path; and it     *)
(* leaves what is at each of these target paths unchanged.                 *)
ConflictNamesFirst ==
  \A n \in Calls : \A name \in Packages :
    (IsCall(n, "Link", name) /\ OccupiedAt(n, name) # {}) =>
      /\ \/ ConflictAt(n, name, FirstOccupied(n, name))
         \/ /\ log[n].err.kind \notin {"", "conflict"}
            /\ WalkBefore(log[n].err.path.c, TargetOf(name, FirstOccupied(n, name)).c)
      /\ \A x \in OccupiedAt(n, name) : Unchanged(n, name, x)

\* a Link([p]) that met two occupied target paths, a regular file at the
\* first, and returned the conflict error naming the first
ConflictWitness ==
  \E n \in Calls : \E name \in Packages :
    /\ IsCall(n, "Link", name)
    /\ Cardinality(OccupiedAt(n, name)) > 1
    /\ AtTarget(log[n].pre, name, FirstOccupied(n, name)).node.kind = "file"
    /\ ConflictAt(n, name, FirstOccupied(n, name))

----------------------------------------------------------------------------
(* C4 Link postcondition, as claimed: after a Link([p]) without error the  *)
(* target path of every planned entry of p holds a real directory for a    *)
(* directory and, for a file, a symbolic link whose stored destination is  *)
(* the file's absolute source path.                                        *)
LinkMirrorsExactly ==
  \A n \in Calls : \A name \in Packages :
    (IsCall(n, "Link", name) /\ Ok(n)) =>
      \A x \in PkgEntries(fs, name) :
        Planned(fs, name, x) =>
          /\ AtTarget(After(n), name, x).err = ""
          /\ IF IsFile(fs, x)
               THEN AtTarget(After(n), name, x).node = LinkNode(Abs(SourceOf(name, x)))
             ELSE AtTarget(After(n), name, x).node.kind = "dir"

(* C4 Link postcondition, amended: ... holds, for a directory, a real      *)
(* directory or a symbolic link to a directory that was there before the   *)
(* call; for a file, a symbolic link whose stored destination is the       *)
(* file's absolute source path, or the symbolic link that was there        *)
(* before the call and leads to the source file.                           *)
LinkMirrors ==
  \A n \in Calls : \A name \in Packages :
    (IsCall(n, "Link", name) /\ Ok(n)) =>
      \A x \in PkgEntries(fs, name) :
        Planned(fs, name, x) =>
          /\ AtTarget(After(n), name, x).err = ""
          /\ IF IsFile(fs, x)
               THEN \/ AtTarget(After(n), name, x).node = LinkNode(Abs(SourceOf(name, x)))
                    \/ /\ Unchanged(n, name, x)
                       /\ HoldsLinkTo(After(n), name, x)
             ELSE \/ AtTarget(After(n), name, x).node.kind = "dir"
                  \/ /\ Unchanged(n, name, x)
                     /\ AtTarget(After(n), name, x).node.kind = "symlink"
                     /\ Stat(After(n), TargetOf(name, x)).err = ""
                     /\ Stat(After(n), TargetOf(name, x)).node.kind = "dir"

\* a Link([p]) without error that made a link, made a directory, and
\* kept a relative link it found
LinkMirrorsWitness ==
  \E n \in Calls : \E name \in Packages :
    /\ IsCall(n, "Link", name) /\ Ok(n)
    /\ \E x \in PlannedFiles(fs, name) :
         /\ Absent(log[n].pre, name, x)
         /\ AtTarget(After(n), name, x).node = LinkNode(Abs(SourceOf(name, x)))
    /\ \E x \in PkgEntries(fs, name) :
         /\ ~IsFile(fs, x) /\ Planned(fs, name, x)
         /\ Absent(log[n].pre, name, x)
         /\ AtTarget(After(n), name, x).node.kind = "dir"
    /\ \E x \in PlannedFiles(fs, name) :
         /\ ~AtTarget(After(n), name, x).node.dest.abs
         /\ HoldsLinkTo(After(n), name, x)

----------------------------------------------------------------------------
(* C5 Ignore completeness: a Link([p]) leaves the target path of every     *)
(* file of p whose relative path the patterns ignore as it found it        *)
(* (nothing is created there), whether it succeeds or not; and when it     *)
(* succeeds every planned file of p has a link to it at its target path.   *)
LinkSkipsIgnored ==
  \A n \in Calls : \A name \in Packages :
    IsCall(n, "Link", name) =>
      /\ \A x \in Files(fs, name) :
           SelfIgnored(fs, name, x) => Unchanged(n, name, x)
      /\ Ok(n) => \A x \in PlannedFiles(fs, name) : HoldsLinkTo(After(n), name, x)

\* the directory of entry x
DirOf(x) == SubSeq(x, 1, Len(x) - 1)

\* a Link([p]) without error after which nothing is at an ignored file's
\* target path and a link it made is at the path of a sibling
LinkSkipsIgnoredWitness ==
  \E n \in Calls : \E name \in Packages :
    /\ IsCall(n, "Link", name) /\ Ok(n)
    /\ \E x \in Files(fs, name), y \in PlannedFiles(fs, name) :
         /\ DirOf(x) = DirOf(y)
         /\ SelfIgnored(fs, name, x) /\ Absent(After(n), name, x)
         /\ Absent(log[n].pre, name, y) /\ HoldsLinkTo(After(n), name, y)

----------------------------------------------------------------------------
\* x is an ignored directory of its package, or lies below one
InIgnoredDir(f, name, x) ==
  \E k \in 1..Len(RelOf(name, x).c) :
    /\ ~IsFile(f, PkgRoot(name) \o SubSeq(RelOf(name, x).c, 1, k))
    /\ IsIgnored(PatternsOf(f, name), P(FALSE, SubSeq(RelOf(name, x).c, 1, k)))

(* C6 Subtree pruning: a Link([p]) leaves the target path of an ignored    *)
(* directory of p, and of every file and directory below it, as it found   *)
(* it, also where the descendant matches no pattern itself.                *)
LinkPrunesSubtree ==
  \A n \in Calls : \A name \in Packages :
    IsCall(n, "Link", name) =>
      \A x \in PkgEntries(fs, name) :
        InIgnoredDir(fs, name, x) => Unchanged(n, name, x)

\* a Link([p]) without error that made links, and nothing at the path of an
\* ignored directory nor at that of a file below it that no pattern matches
LinkPrunesSubtreeWitness ==
  \E n \in Calls : \E name \in Packages :
    /\ IsCall(n, "Link", name) /\ Ok(n)
    /\ \E y \in PlannedFiles(fs, name) :
         Absent(log[n].pre, name, y) /\ HoldsLinkTo(After(n), name, y)
    /\ \E x \in Files(fs, name) :
         /\ InIgnoredDir(fs, name, x) /\ ~SelfIgnored(fs, name, x)
         /\ Absent(After(n), name, x)
         /\ Absent(After(n), name, DirOf(x))

----------------------------------------------------------------------------
(* Glob patterns as filepath.Match documents them, for C7: a pattern is a  *)
(* sequence of terms, a term is *, ?, a class [...] or [^...] of           *)
(* characters and ranges lo-hi, an escaped character \c, or a character;   *)
(* * and ? match no separator.                                             *)

NoGlob == [ok |-> FALSE, terms |-> <<>>, next |-> 0]

\* the members of a class from position i of pat on: [ok, terms, next],
\* terms the ranges <<lo, hi>>, next the position after the closing ]
RECURSIVE GlobClass(_, _, _)
GlobClass(pat, i, ranges) ==
  IF i > Len(pat) THEN NoGlob
  ELSE IF pat[i] = "]" THEN [ok |-> ranges # <<>>, terms |-> ranges, next |-> i + 1]
  ELSE
    LET lo == IF pat[i] = "\\" THEN i + 1 ELSE i
        hi == IF lo + 2 <= Len(pat) /\ pat[lo + 2] = "\\" THEN lo + 3 ELSE lo + 2
    IN IF lo > Len(pat) \/ (lo = i /\ pat[lo] = "-") THEN NoGlob
       ELSE IF lo + 1 <= Len(pat) /\ pat[lo + 1] = "-" THEN
         IF hi > Len(pat) \/ (hi = lo + 2 /\ pat[hi] \in {"-", "]"}) THEN NoGlob
         ELSE GlobClass(pat, hi + 1, Append(ranges, <<pat[lo], pat[hi]>>))
       ELSE GlobClass(pat, lo + 1, Append(ranges, <<pat[lo], pat[lo]>>))

\* the terms of pattern pat from position i on: [ok, terms, next]
RECURSIVE GlobTerms(_, _, _)
GlobTerms(pat, i, terms) ==
  IF i > Len(pat) THEN [ok |-> TRUE, terms |-> terms, next |-> i]
  ELSE IF pat[i] = "*" THEN GlobTerms(pat, i + 1, Append(terms, [t |-> "star"]))
  ELSE IF pat[i] = "?" THEN GlobTerms(pat, i + 1, Append(terms, [t |-> "any"]))
  ELSE IF pat[i] = "\\" THEN
    IF i + 1 > Len(pat) THEN NoGlob
    ELSE GlobTerms(pat, i + 2, Append(terms, [t |-> "char", c |-> pat[i + 1]]))
  ELSE IF pat[i] = "[" THEN
    LET neg == i + 1 <= Len(pat) /\ pat[i + 1] = "^"
        cl == GlobClass(pat, IF neg THEN i + 2 ELSE i + 1, <<>>)
    IN IF ~cl.ok THEN NoGlob
       ELSE GlobTerms(pat, cl.next,
                      Append(terms, [t |-> "class", neg |-> neg, ranges |-> cl.terms]))
  ELSE GlobTerms(pat, i + 1, Append(terms, [t |-> "char", c |-> pat[i]]))

InRanges(ranges, ch) ==
  \E k \in DOMAIN ranges : Code(ranges[k][1]) <= Code(ch) /\ Code(ch) <= Code(ranges[k][2])

\* the terms match the whole of name
RECURSIVE GlobMatches(_, _)
GlobMatches(terms, name) ==
  IF terms = <<>> THEN name = <<>>
  ELSE LET term == Head(terms) IN
    IF term.t = "star" THEN
      \/ GlobMatches(Tail(terms), name)
      \/ name # <<>> /\ Head(name) # Separator /\ GlobMatches(terms, Tail(name))
    ELSE /\ name # <<>>
         /\ CASE term.t = "any" -> Head(name) # Separator
              [] term.t = "char" -> Head(name) = term.c
              [] term.t = "class" -> InRanges(term.ranges, Head(name)) # term.neg
         /\ GlobMatches(Tail(terms), Tail(name))

\* the rule of C7 for one pattern and one relative path
GlobIgnores(pattern, relPath) ==
  LET g == GlobTerms(pattern, 1, <<>>) IN
    /\ g.ok
    /\ \/ GlobMatches(g.terms, PathString(relPath.c))
       \/ ~HasSeparator(pattern) /\ GlobMatches(g.terms, Base(relPath))

\* some prefix of x's relative path is ignored by the rule: x is, or a
\* directory above it
GlobPruned(f, name, x) ==
  \E k \in 1..Len(RelOf(name, x).c) : \E j \in DOMAIN PatternsOf(f, name) :
    GlobIgnores(PatternsOf(f, name)[j], P(FALSE, SubSeq(RelOf(name, x).c, 1, k)))

----------------------------------------------------------------------------
\* what path led to in file system pre is in post as it was, and a path
\* that led to nothing still leads to nothing
Kept(pre, post, path) ==
  LET r == Resolve(pre, path, FALSE) IN
    IF r.err = "" THEN r.at \in DOMAIN post /\ post[r.at] = pre[r.at]
    ELSE Lstat(post, path).err # ""

----------------------------------------------------------------------------
(* C9 Unlink leaves what is not a symbolic link: every regular file that   *)
(* is in the file system before an Unlink, in the target tree (at a        *)
(* planned path or not) or anywhere else, is there unchanged after it.     *)
UnlinkKeepsFiles ==
  \A n \in Calls :
    log[n].op = "Unlink" =>
      \A at \in DOMAIN log[n].pre :
        log[n].pre[at].kind = "file"
          => (at \in DOMAIN After(n) /\ After(n)[at] = log[n].pre[at])

\* an Unlink([p]) that removed a link and found a regular file at the
\* target path of a planned file, and one elsewhere in the target tree
UnlinkKeepsFilesWitness ==
  \E n \in Calls : \E name \in Packages :
    /\ IsCall(n, "Unlink", name)
    /\ \E y \in PlannedFiles(fs, name) :
         HoldsLinkTo(log[n].pre, name, y) /\ Absent(After(n), name, y)
    /\ \/ \E x \in PlannedFiles(fs, name) :
            AtTarget(log[n].pre, name, x).node.kind = "file"
       \/ /\ TargetRoot \o <<Uu>> \in DOMAIN log[n].pre
          /\ log[n].pre[TargetRoot \o <<Uu>>].kind = "file"

----------------------------------------------------------------------------
(* C10 Unlink removes only the expected link: an Unlink([p]) leaves in     *)
(* place, with its destination, a symbolic link at the target path of a    *)
(* planned entry of p that does not lead to that entry's source, and       *)
(* does not fail at it.                                                    *)
UnlinkKeepsForeignLinks ==
  \A n \in Calls : \A name \in Packages :
    IsCall(n, "Unlink", name) =>
      \A x \in PkgEntries(fs, name) :
        ( /\ Planned(fs, name, x)
          /\ AtTarget(log[n].pre, name, x).node.kind = "symlink"
          /\ ~HoldsLinkTo(log[n].pre, name, x) )
          => /\ Unchanged(n, name, x)
             /\ log[n].err.path # TargetOf(name, x)

----------------------------------------------------------------------------
\* the packages of the program's world that the n-th call names
NamedIn(n) == {name \in Packages : \E i \in DOMAIN log[n].names : log[n].names[i] = name}

\* the components of x's target path
TargetComps(name, x) == Abs(TargetOf(name, x)).c

\* the n-th call removed the symbolic link at x's target path
RemovedLink(n, name, x) ==
  /\ AtTarget(log[n].pre, name, x).err = ""
  /\ AtTarget(log[n].pre, name, x).node.kind = "symlink"
  /\ Absent(After(n), name, x)

\* the directories between the target root and x's target path
AncestorsBelowRoot(name, x) ==
  {SubSeq(TargetComps(name, x), 1, k) :
     k \in (Len(linker.TargetDir.c) + 1)..(Len(TargetComps(name, x)) - 1)}

----------------------------------------------------------------------------
\* the place of a package name in the list the n-th call was given
Position(n, name) == CHOOSE i \in DOMAIN log[n].names : log[n].names[i] = name

\* the planned entries of the packages the n-th call names
PlannedOf(n) ==
  UNION {{[name |-> name, x |-> x] : x \in {y \in PkgEntries(log[n].pre, name) :
                                              Planned(log[n].pre, name, y)}} :
         name \in NamedIn(n)}

\* the n-th call comes to entry e1 before entry e2: an earlier package, or
\* the same package and earlier in the walk
Precedes(n, e1, e2) ==
  \/ Position(n, e1.name) < Position(n, e2.name)
  \/ /\ e1.name = e2.name
     /\ WalkBefore(RelOf(e1.name, e1.x).c, RelOf(e2.name, e2.x).c)

\* the entry is linked in f: a directory at a directory's target path, a
\* link to the file at a file's
LinkedIn(f, e) ==
  IF IsFile(fs, e.x) THEN HoldsLinkTo(f, e.name, e.x)
  ELSE Stat(f, TargetOf(e.name, e.x)).node.kind = "dir"

\* the target paths the n-th call comes to before entry e
TargetsBefore(n, e) ==
  {TargetComps(d.name, d.x) : d \in {c \in PlannedOf(n) : Precedes(n, c, e)}}

(* C12 Fail-fast without rollback: a Link that returns a conflict error    *)
(* returns it for a planned file; every planned entry before it, in the    *)
(* order of the packages and of the walk, is linked; the target path of    *)
(* the file and of every entry after it holds what it held before; and     *)
(* nothing that was in the file system before the call is changed or gone. *)
LinkFailsFast ==
  \A n \in Calls :
    (log[n].op = "Link" /\ log[n].err.kind = "conflict") =>
      \E e \in PlannedOf(n) :
        /\ IsFile(fs, e.x)
        /\ ConflictAt(n, e.name, e.x)
        /\ \A d \in PlannedOf(n) :
             IF Precedes(n, d, e) THEN LinkedIn(After(n), d)
             ELSE TargetComps(d.name, d.x) \notin TargetsBefore(n, e)
                    => Unchanged(n, d.name, d.x)
        /\ \A a \in DOMAIN log[n].pre :
             a \in DOMAIN After(n) /\ After(n)[a] = log[n].pre[a]
        /\ Cardinality(DOMAIN After(n) \ DOMAIN log[n].pre)
             <= Cardinality(TargetsBefore(n, e))

\* a Link of two packages that failed at a file of the first: it had made
\* a link for an earlier file, and left a later file of the first package
\* and a file of the second without one
LinkFailsFastWitness ==
  \E n \in Calls :
    /\ log[n].op = "Link" /\ log[n].err.kind = "conflict"
    /\ Len(log[n].names) = 2
    /\ \E e \in PlannedOf(n) :
         /\ ConflictAt(n, e.name, e.x)
         /\ Position(n, e.name) = 1
         /\ \E b \in PlannedOf(n) :
              /\ Precedes(n, b, e) /\ IsFile(fs, b.x)
              /\ Absent(log[n].pre, b.name, b.x)
              /\ HoldsLinkTo(After(n), b.name, b.x)
         /\ \E d \in PlannedOf(n) :
              /\ Position(n, d.name) = 1 /\ Precedes(n, e, d) /\ IsFile(fs, d.x)
              /\ Absent(After(n), d.name, d.x)
         /\ \E c \in PlannedOf(n) :
              /\ Position(n, c.name) = 2 /\ IsFile(fs, c.x)
              /\ Absent(After(n), c.name, c.x)

----------------------------------------------------------------------------
(* C13 One correctness relation for both engines: when Link([p]) is        *)
(* followed by an Unlink([p]) that returns no error, a symbolic link that  *)
(* was at the target path of a planned file of p before the Link is        *)
(* removed by the Unlink if the Link took it for the file's link (it       *)
(* returned no error), and is left in place if the Link refused it (it     *)
(* returned the conflict error for that path).                             *)
OneRelation ==
  \A n \in Calls : \A name \in Packages :
    ( /\ n + 1 \in Calls
      /\ IsCall(n, "Link", name) /\ IsCall(n + 1, "Unlink", name) /\ Ok(n + 1) )
      => \A x \in PlannedFiles(fs, name) :
           ( /\ AtTarget(log[n].pre, name, x).node.kind = "symlink"
             /\ (Ok(n) \/ ConflictAt(n, name, x)) )
             => (Ok(n) <=> Absent(After(n + 1), name, x))

----------------------------------------------------------------------------
\* the symlink correctness relation: x's target path holds a symbolic link
\* whose destination, resolved from the link's directory, is x's absolute
\* source path
ExpectedLink(f, name, x) ==
  /\ AtTarget(f, name, x).err = ""
  /\ AtTarget(f, name, x).node.kind = "symlink"
  /\ LeadsTo(AtTarget(f, name, x).node.dest, Abs(TargetOf(name, x)))
       = Abs(SourceOf(name, x))

(* C14 Verified unlinking: after an Unlink that returned no error, no      *)
(* planned file of a package it named has the expected link to its source  *)
(* at its target path.                                                     *)
UnlinkVerified ==
  \A n \in Calls :
    (log[n].op = "Unlink" /\ Ok(n)) =>
      \A name \in NamedIn(n) : \A x \in PlannedFiles(fs, name) :
        ~ExpectedLink(After(n), name, x)

----------------------------------------------------------------------------
(* C15 Dry-run changes nothing: a run of the command with the dry-run     *)
(* flag leaves the file system exactly as it found it, for link, unlink   *)
(* and relink alike: no link, no directory is made or removed.            *)
DryRun(n) == log[n].noop /\ log[n].op \in Actions

DryRunChangesNothing ==
  \A n \in Calls : DryRun(n) => After(n) = log[n].pre

\* a dry-run unlink of p on a tree where the run without the flag removes a link
DryRunChangesNothingWitness ==
  \E n \in Calls :
    /\ DryRun(n) /\ log[n].op = "unlink" /\ log[n].names = <<Pp>>
    /\ \E x \in PlannedFiles(log[n].pre, Pp) :
         /\ HoldsLinkTo(log[n].pre, Pp, x)
         /\ HoldsLinkTo(After(n), Pp, x)
         /\ Absent(UnlinkOp(log[n].pre, linker, <<Pp>>).fs, Pp, x)

----------------------------------------------------------------------------
(* C16 Dry-run performs every check: a dry run reports what the same run  *)
(* without the flag reports: it returns the error (unknown package,       *)
(* conflict) the run without the flag returns on the same tree, and none  *)
(* when that run returns none.                                            *)
DryRunChecks ==
  \A n \in Calls :
    DryRun(n) =>
      log[n].err = performAction(log[n].pre, linker, log[n].op, log[n].names).err

----------------------------------------------------------------------------
\* the n-th entry is a run of main with the force-remove flag that unlinked
ForcedUnlink(n) == log[n].force /\ ~log[n].noop /\ log[n].op = "unlink"

(* C17 Force-mode pruning: after an unlink run with the force-remove      *)
(* option set has removed a link, no directory between the target root    *)
(* and that link is left, empty or not, and the target root and what is   *)
(* outside it are as they were.                                           *)
ForcePrunesAll ==
  \A n \in Calls :
    ForcedUnlink(n) =>
      \A name \in NamedIn(n) : \A x \in Files(fs, name) :
        RemovedLink(n, name, x) =>
          /\ \A a \in AncestorsBelowRoot(name, x) : a \notin DOMAIN After(n)
          /\ linker.TargetDir.c \in DOMAIN After(n)
          /\ \A a \in DOMAIN log[n].pre :
               ~StrHasPrefix(a, linker.TargetDir.c)
                 => (a \in DOMAIN After(n) /\ After(n)[a] = log[n].pre[a])

----------------------------------------------------------------------------
\* the n-th entry is a run of main that called Link, or Unlink, once
EngineRun(n) == ~log[n].noop /\ log[n].op \in {"link", "unlink"}

\* the name is an immediate subdirectory of the source root
IsSubdirectory(f, name) ==
  /\ Lstat(f, PkgPath(name)).err = ""
  /\ Lstat(f, PkgPath(name)).node.kind = "dir"

HasUnknown(n) ==
  \E i \in DOMAIN log[n].names : ~IsSubdirectory(log[n].pre, log[n].names[i])

\* the place of the first requested name that is no package
FirstUnknown(n) ==
  CHOOSE i \in DOMAIN log[n].names :
    /\ ~IsSubdirectory(log[n].pre, log[n].names[i])
    /\ \A j \in 1..(i - 1) : IsSubdirectory(log[n].pre, log[n].names[j])

\* what the call does when given the names before the unknown one only
BeforeUnknown(n) ==
  performAction(log[n].pre, linker, log[n].op,
                SubSeq(log[n].names, 1, FirstUnknown(n) - 1))

(* C18 Unknown package: a Link or Unlink given a name that is no          *)
(* immediate subdirectory of the source root leaves the file system as    *)
(* the same call on the names before that name leaves it (those packages  *)
(* are processed in full, nothing is done for the unknown name or a later *)
(* one), and returns the package-not-found error for that name, unless    *)
(* an earlier package has already failed.                                 *)
UnknownPackageStops ==
  \A n \in Calls :
    (EngineRun(n) /\ HasUnknown(n)) =>
      /\ After(n) = BeforeUnknown(n).fs
      /\ log[n].err = IF BeforeUnknown(n).err # NoErr THEN BeforeUnknown(n).err
                      ELSE Err("packageNotFound", Name(log[n].names[FirstUnknown(n)]))

\* a link of q, z, p: q's file is linked, the error names z, and no file of
\* p is linked
UnknownPackageStopsWitness ==
  \E n \in Calls :
    /\ EngineRun(n) /\ log[n].op = "link" /\ log[n].names = <<Qq, Zz, Pp>>
    /\ log[n].err = Err("packageNotFound", Name(Zz))
    /\ \E x \in PlannedFiles(fs, Qq) :
         Absent(log[n].pre, Qq, x) /\ HoldsLinkTo(fs, Qq, x)
    /\ PlannedFiles(fs, Pp) # {}
    /\ \A x \in PlannedFiles(fs, Pp) : Absent(fs, Pp, x)

----------------------------------------------------------------------------
\* the source root as a path of the file system
SourceRootAt == Abs(linker.SourceDir).c

\* the source root can be read: it is there and is a directory
Readable(f) == SourceRootAt \in DOMAIN f /\ f[SourceRootAt].kind = "dir"

\* the immediate subdirectories of the source root
Subdirectories(f) == {x \in Children(f, SourceRootAt) : f[x].kind = "dir"}

\* the catalog of the file system
Catalog(f) == FindPackages(f, linker)

(* C19 Catalog result: when FindPackages returns a catalog, it holds      *)
(* exactly one package for each immediate subdirectory of the source      *)
(* root, named as the subdirectory and with the path sourceRoot/Name, and *)
(* nothing else: no entry of the source root that is not a directory, no  *)
(* directory further down.                                                *)
CatalogIsSubdirectories ==
  Catalog(fs).err = NoErr =>
    /\ Len(Catalog(fs).packages) = Cardinality(Subdirectories(fs))
    /\ \A x \in Subdirectories(fs) :
         \E i \in DOMAIN Catalog(fs).packages : Catalog(fs).packages[i].Name = x[Len(x)]
    /\ \A i \in DOMAIN Catalog(fs).packages :
         /\ SourceRootAt \o <<Catalog(fs).packages[i].Name>> \in Subdirectories(fs)
         /\ Catalog(fs).packages[i].Path
              = P(linker.SourceDir.abs,
                  linker.SourceDir.c \o <<Catalog(fs).packages[i].Name>>)

\* a Link found its package in a source root that also holds an entry z
\* that is not a directory; the catalog is p and q, and p has a directory
\* below it
CatalogIsSubdirectoriesWitness ==
  \E n \in Calls :
    /\ log[n].op = "Link" /\ Ok(n) /\ log[n].names = <<Pp>>
    /\ SourceRootAt \o <<Zz>> \in DOMAIN fs
    /\ SourceRootAt \o <<Pp, Dd>> \in DOMAIN fs
    /\ Len(Catalog(fs).packages) = 2

----------------------------------------------------------------------------
\* the catalog of f fails: the source root cannot be read, or has no
\* subdirectory
CatalogFails(f) == ~Readable(f) \/ Subdirectories(f) = {}

(* C20 Catalog failures precede any mutation: when the source root cannot *)
(* be read or has no subdirectory, FindPackages returns an error, and a   *)
(* Link or Unlink returns that error and leaves the file system as it     *)
(* was, whatever names it was given.                                      *)
CatalogFailsFirst ==
  /\ CatalogFails(fs) => Catalog(fs).err.kind \in {"readSource", "noPackages"}
  /\ \A n \in Calls :
       CatalogFails(log[n].pre) =>
         /\ log[n].err = Catalog(log[n].pre).err
         /\ log[n].err # NoErr
         /\ After(n) = log[n].pre

\* an Unlink on a source root of files only: it returns the no-packages
\* error and the link in the target root is still there
CatalogFailsFirstWitness ==
  \E n \in Calls :
    /\ log[n].op = "Unlink"
    /\ Readable(log[n].pre) /\ Children(log[n].pre, SourceRootAt) # {}
    /\ log[n].err.kind = "noPackages"
    /\ Children(fs, linker.TargetDir.c) # {}

----------------------------------------------------------------------------
\* the lines of p's ignore file
IgnoreLinesOf(f) == f[PkgRoot(Pp) \o <<IgnoreFileName>>].data

\* what loadIgnorePatterns returns for p
Loaded(f) == loadIgnorePatterns(f, PkgPath(Pp))

Blank(line) == \A k \in DOMAIN line : line[k] = " "

\* t is line without the spaces around it
IsTrimOf(t, line) ==
  /\ t # <<>> /\ t[1] # " " /\ t[Len(t)] # " "
  /\ \E i \in 0..Len(line) :
       /\ i + Len(t) <= Len(line)
       /\ SubSeq(line, i + 1, i + Len(t)) = t
       /\ \A k \in DOMAIN line : (k <= i \/ k > i + Len(t)) => line[k] = " "

\* the first character of the line that is not a space is '#'
CommentLine(line) ==
  \E k \in DOMAIN line : line[k] = "#" /\ \A j \in 1..(k - 1) : line[j] = " "

----------------------------------------------------------------------------
\* the pattern is not a glob pattern
Malformed(pattern) == ~GlobTerms(pattern, 1, <<>>).ok

WellFormed(patterns) == SelectSeq(patterns, LAMBDA pattern : ~Malformed(pattern))

IgnorePathOf(name) == PkgRoot(name) \o <<IgnoreFileName>>

\* the file system with the malformed lines of p's ignore file taken out
WithoutMalformed(f) ==
  [f EXCEPT ![IgnorePathOf(Pp)].data = WellFormed(@)]

\* f and g differ in p's ignore file at most
SameButIgnoreFile(f, g) ==
  /\ DOMAIN f = DOMAIN g
  /\ \A x \in DOMAIN f \ {IgnorePathOf(Pp)} : f[x] = g[x]

\* the n-th call, made on the file system without the malformed lines
CallWithoutMalformed(n) ==
  Run(log[n].op, WithoutMalformed(log[n].pre), linker, log[n].names)

(* C22 Malformed patterns are non-fatal non-matches: a path of p is       *)
(* ignored exactly when the well-formed patterns of p alone ignore it,    *)
(* and a Link or Unlink returns what it returns, and leaves what it       *)
(* leaves, when the malformed lines are taken out of the ignore file; no  *)
(* error comes from a malformed pattern.                                  *)
MalformedIsAbsent ==
  /\ \A x \in PkgEntries(fs, Pp) :
       IsIgnored(PatternsOf(fs, Pp), RelOf(Pp, x))
         <=> IsIgnored(WellFormed(PatternsOf(fs, Pp)), RelOf(Pp, x))
  /\ (\A k \in DOMAIN PatternsOf(fs, Pp) : Malformed(PatternsOf(fs, Pp)[k]))
       => \A x \in PkgEntries(fs, Pp) : ~IsIgnored(PatternsOf(fs, Pp), RelOf(Pp, x))
  /\ \A n \in Calls :
       /\ log[n].err = CallWithoutMalformed(n).err
       /\ SameButIgnoreFile(After(n), CallWithoutMalformed(n).fs)

\* a Link of p without error whose ignore file has a malformed pattern and
\* then *.t: a.t is not linked, a.x is
MalformedIsAbsentWitness ==
  \E n \in Calls :
    /\ IsCall(n, "Link", Pp) /\ Ok(n)
    /\ PatternsOf(fs, Pp) = << <<"[">>, <<"*", ".", "t">> >>
    /\ Malformed(PatternsOf(fs, Pp)[1])
    /\ Absent(fs, Pp, PkgRoot(Pp) \o <<At>>)
    /\ HoldsLinkTo(fs, Pp, PkgRoot(Pp) \o <<Ax>>)

----------------------------------------------------------------------------
\* the n-th entry is a relink run of main
Relink(n) == ~log[n].noop /\ log[n].op = "relink"

\* the Unlink a relink starts with
UnlinkPhase(n) == UnlinkOp(log[n].pre, linker, log[n].names)

\* the Link that follows it
LinkPhase(n) == LinkOp(UnlinkPhase(n).fs, linker, log[n].names)

(* C23 Relink ordering: a relink is the Unlink of the names and then, on  *)
(* what the Unlink left and only if it returned no error, the Link of the *)
(* names; when the Unlink fails the relink returns its error and leaves   *)
(* what the Unlink left, no Link being made.                              *)
RelinkUnlinksThenLinks ==
  \A n \in Calls :
    Relink(n) =>
      IF UnlinkPhase(n).err # NoErr
        THEN log[n].err = UnlinkPhase(n).err /\ After(n) = UnlinkPhase(n).fs
        ELSE log[n].err = LinkPhase(n).err /\ After(n) = LinkPhase(n).fs

\* a relink of p, z: the Unlink removed a link of p and failed at z; the
\* relink returns that error and no file of p is linked, which a Link would
\* have done
RelinkUnlinksThenLinksWitness ==
  \E n \in Calls :
    /\ Relink(n) /\ log[n].names = <<Pp, Zz>>
    /\ log[n].err = Err("packageNotFound", Name(Zz))
    /\ \E x \in PlannedFiles(fs, Pp) :
         /\ HoldsLinkTo(log[n].pre, Pp, x)
         /\ Absent(fs, Pp, x)
         /\ HoldsLinkTo(LinkPhase(n).fs, Pp, x)

----------------------------------------------------------------------------
\* the invocation of the n-th run is valid: one action at most, at least
\* one package name, no argument that looks like a flag
ValidInvocation(n) ==
  /\ Cardinality(log[n].given) <= 1
  /\ log[n].names # <<>>
  /\ \A i \in DOMAIN log[n].names : log[n].names[i][1] # "-"

\* what the action of the n-th run returns on the tree the run found
Requested(n) == performAction(log[n].pre, linker, log[n].op, log[n].names)

(* C24 Exit status: a run exits with status zero only if its invocation   *)
(* is valid and the Link and Unlink calls of its action, on the tree the  *)
(* run found, complete without error; a run that made them leaves what    *)
(* they leave, and every error returned gives a status other than zero.   *)
ExitZeroOnlyOnSuccess ==
  \A n \in Calls :
    /\ log[n].status = 0 =>
         /\ ValidInvocation(n)
         /\ Requested(n).err = NoErr
         /\ ~log[n].noop => After(n) = Requested(n).fs
    /\ log[n].err # NoErr => log[n].status # 0

----------------------------------------------------------------------------
\* the n-th call made the link of file entry e
NewlyLinked(n, e) ==
  /\ IsFile(fs, e.x)
  /\ ~HoldsLinkTo(log[n].pre, e.name, e.x)
  /\ HoldsLinkTo(After(n), e.name, e.x)

\* the n-th call returned an error met at an entry of a walk
EntryError(n) == log[n].err.kind \in {"conflict", "mkdir", "stat", "symlink"}

(* C25 Processing order: a Link handles the packages in the order they    *)
(* are named and the entries of a package in walk order, a directory      *)
(* before what is in it: when it fails at an entry, every planned entry   *)
(* before that one, in this order, is linked and no file after it has a   *)
(* new link; when it succeeds every planned entry is linked; and every    *)
(* link it makes lies under directories only, from the target root down.  *)
LinkEntriesInOrder ==
  \A n \in Calls :
    log[n].op = "Link" =>
      /\ EntryError(n) =>
           \E e \in PlannedOf(n) :
             /\ TargetOf(e.name, e.x) = log[n].err.path
             /\ \A d \in PlannedOf(n) :
                  IF Precedes(n, d, e) THEN LinkedIn(After(n), d)
                  ELSE ~NewlyLinked(n, d)
      /\ Ok(n) => \A d \in PlannedOf(n) : LinkedIn(After(n), d)
      /\ \A d \in PlannedOf(n) :
           NewlyLinked(n, d) =>
             \A a \in AncestorsBelowRoot(d.name, d.x) :
               Stat(After(n), P(TRUE, a)).node.kind = "dir"

\* a Link of p and q that failed at p's directory d, whose target path
\* held a regular file: the files before d are newly linked, no file in d
\* or after it is, and q is not begun
LinkEntriesInOrderWitness ==
  \E n \in Calls :
    /\ log[n].op = "Link" /\ log[n].names = <<Pp, Qq>>
    /\ log[n].err = Err("mkdir", TargetOf(Pp, PkgRoot(Pp) \o <<Dd>>))
    /\ NewlyLinked(n, [name |-> Pp, x |-> PkgRoot(Pp) \o <<Ax>>])
    /\ ~NewlyLinked(n, [name |-> Pp, x |-> PkgRoot(Pp) \o <<Dd, Bx>>])
    /\ Absent(After(n), Pp, PkgRoot(Pp) \o <<Ex>>)
    /\ ~NewlyLinked(n, [name |-> Qq, x |-> PkgRoot(Qq) \o <<Dd, Cx>>])

----------------------------------------------------------------------------
\* the entries the n-th call made
CreatedBy(n) == DOMAIN After(n) \ DOMAIN log[n].pre

\* the planned entries of the n-th call whose target path is the entry a
EntriesAt(n, a) ==
  {e \in PlannedOf(n) : Resolve(After(n), TargetOf(e.name, e.x), FALSE).at = a}

\* the link leads to the regular file x of the source
LeadsToSource(f, a, x) ==
  /\ f[a].kind = "symlink"
  /\ Resolve(f, f[a].dest, TRUE).err = ""
  /\ Resolve(f, f[a].dest, TRUE).at = x
  /\ f[x].kind = "file"

(* C26 Target-tree invariant: in every state, whatever calls came before, *)
(* an entry that a Link made and that is still there is the entry of a    *)
(* planned entry of that Link: for a file a symbolic link that leads to   *)
(* that file of the source, which exists, and for a directory a           *)
(* directory, not a symbolic link; and the source is as it was.           *)
LinkMakesLinksAndDirs ==
  \A n \in Calls :
    /\ \A x \in DOMAIN log[n].pre :
         StrHasPrefix(x, SourceRoot) => (x \in DOMAIN fs /\ fs[x] = log[n].pre[x])
    /\ log[n].op = "Link" =>
         \A a \in CreatedBy(n) \cap DOMAIN fs :
           \E e \in EntriesAt(n, a) :
             IF IsFile(fs, e.x) THEN LeadsToSource(fs, a, e.x)
             ELSE fs[a].kind = "dir"

\* after a Link that made the directory d and a link in it, and an Unlink
\* that left them: the directory and the link are there
LinkMakesLinksAndDirsWitness ==
  \E n \in Calls :
    /\ n + 1 \in Calls
    /\ log[n].op = "Link" /\ Ok(n)
    /\ log[n + 1].op = "Unlink"
    /\ TargetRoot \o <<Dd>> \in CreatedBy(n) \cap DOMAIN fs
    /\ TargetRoot \o <<Dd, Bx>> \in CreatedBy(n) \cap DOMAIN fs
    /\ fs[TargetRoot \o <<Dd>>].kind = "dir"
    /\ LeadsToSource(fs, TargetRoot \o <<Dd, Bx>>, SourceRoot \o <<Pp, Dd, Bx>>)

----------------------------------------------------------------------------
\* the planned directories of the packages the n-th call names
PlannedDirs(n) == {e \in PlannedOf(n) : ~IsFile(fs, e.x)}

\* the directory at a's place went as an emptied directory above a link the
\* n-th call removed
PrunedAbove(n, a) ==
  /\ log[n].pre[a].kind = "dir"
  /\ \E name \in NamedIn(n) : \E x \in Files(fs, name) :
       RemovedLink(n, name, x) /\ a \in AncestorsBelowRoot(name, x)

(* C27 Directory entries are inert during Unlink: what is at the target   *)
(* path of a planned directory before an Unlink is there unchanged after  *)
(* it, whatever it is, a symbolic link to the source directory included,  *)
(* unless it is a directory that went as an emptied directory above a     *)
(* removed file link.                                                     *)
UnlinkLeavesDirectoryPaths ==
  \A n \in Calls :
    log[n].op = "Unlink" =>
      \A e \in PlannedDirs(n) :
        TargetComps(e.name, e.x) \in DOMAIN log[n].pre =>
          \/ /\ TargetComps(e.name, e.x) \in DOMAIN After(n)
             /\ After(n)[TargetComps(e.name, e.x)] = log[n].pre[TargetComps(e.name, e.x)]
          \/ PrunedAbove(n, TargetComps(e.name, e.x))

----------------------------------------------------------------------------
\* the paths below the target root that are directories, or lead to one,
\* before the n-th call
DirectoriesBelowRoot(n) ==
  {a \in DOMAIN log[n].pre :
     /\ StrHasPrefix(a, linker.TargetDir.c) /\ a # linker.TargetDir.c
     /\ Stat(log[n].pre, P(TRUE, a)).err = ""
     /\ Stat(log[n].pre, P(TRUE, a)).node.kind = "dir"}

\* the entries of the directory at a, or that a leads to, after the n-th
\* call
EntriesLeft(n, a) == Children(After(n), Resolve(log[n].pre, P(TRUE, a), TRUE).at)

(* C28 Default-mode pruning stops at the first non-empty directory: an    *)
(* Unlink takes away no directory of the target tree that still has an    *)
(* entry, and none above such a directory; that directories are left is   *)
(* no error.                                                              *)
PruningStopsAtNonEmpty ==
  \A n \in Calls :
    log[n].op = "Unlink" =>
      \A a \in DirectoriesBelowRoot(n) :
        /\ EntriesLeft(n, a) # {} => (a \in DOMAIN After(n) /\ After(n)[a] = log[n].pre[a])
        /\ (\E b \in DirectoriesBelowRoot(n) :
              StrHasPrefix(b, a) /\ EntriesLeft(n, b) # {}) => a \in DOMAIN After(n)

----------------------------------------------------------------------------
\* the directories the n-th call removed
DirsRemoved(n) ==
  {a \in DOMAIN log[n].pre \ DOMAIN After(n) : log[n].pre[a].kind = "dir"}

\* the directory a is in the target root, below it
InsideRoot(a) == StrHasPrefix(a, linker.TargetDir.c) /\ a # linker.TargetDir.c

(* C29 Pruning is confined to the target root: every directory an Unlink  *)
(* removes is a directory below the target root; the target root, the     *)
(* root of the file system and every directory elsewhere are there after  *)
(* the call as before it.                                                 *)
PruningStaysInRoot ==
  \A n \in Calls :
    log[n].op = "Unlink" => \A a \in DirsRemoved(n) : InsideRoot(a)

----------------------------------------------------------------------------
(* C30 Unlink removes only parent directories that were made during       *)
(* linking: after a Link([p]) without error and the Unlink([p]) that      *)
(* follows, every directory that was there before the Link is still       *)
(* there.                                                                 *)
UnlinkKeepsEarlierDirs ==
  \A n \in Calls : \A name \in Packages :
    LinkThenUnlink(n, name) =>
      \A a \in DOMAIN log[n].pre :
        log[n].pre[a].kind = "dir" => a \in DOMAIN After(n + 1)

----------------------------------------------------------------------------
(* C31 Link tolerates relative stored destinations: when the target path  *)
(* of a planned file holds a symbolic link whose stored destination is    *)
(* relative and leads, from the directory of the link, to the absolute    *)
(* source path (or is the source path literally), a Link of the package   *)
(* returns no error for that path and leaves the link as it was.          *)

\* x's target path holds a link Link is to tolerate
ToleratedLink(f, name, x) ==
  /\ AtTarget(f, name, x).err = ""
  /\ AtTarget(f, name, x).node.kind = "symlink"
  /\ \/ /\ ~AtTarget(f, name, x).node.dest.abs
        /\ LeadsTo(AtTarget(f, name, x).node.dest, Abs(TargetOf(name, x)))
             = Abs(SourceOf(name, x))
     \/ AtTarget(f, name, x).node.dest = SourceOf(name, x)

\* the n-th call returned an error at x's target path
ErrorAt(n, name, x) ==
  log[n].err # NoErr /\ log[n].err.path = TargetOf(name, x)

LinkToleratesRelative ==
  \A n \in Calls : \A name \in Packages :
    (log[n].op = "Link" /\ \E k \in DOMAIN log[n].names : log[n].names[k] = name) =>
      \A x \in PlannedFiles(log[n].pre, name) :
        ToleratedLink(log[n].pre, name, x) =>
          /\ ~ErrorAt(n, name, x)
          /\ Unchanged(n, name, x)

\* a Link([p]) that found a relative link to a.x at a.x's target path,
\* returned no error and left it there
LinkToleratesRelativeWitness ==
  \E n \in Calls :
    /\ IsCall(n, "Link", Pp) /\ Ok(n)
    /\ \E x \in PlannedFiles(log[n].pre, Pp) :
         /\ ToleratedLink(log[n].pre, Pp, x)
         /\ ~AtTarget(log[n].pre, Pp, x).node.dest.abs
         /\ AtTarget(After(n), Pp, x) = AtTarget(log[n].pre, Pp, x)

----------------------------------------------------------------------------
(* C32 Occupied directory path: when the target path of a planned         *)
(* directory holds a regular file, a Link of the package returns an       *)
(* error, leaves the file as it was and makes no link for an entry of     *)
(* that source directory; when it holds a directory, Link returns no      *)
(* error for that path and leaves everything that was in the directory    *)
(* as it was.                                                             *)

\* the n-th call names the package
Names(n, name) == \E k \in DOMAIN log[n].names : log[n].names[k] = name

\* the planned directories of a package
PlannedDirsOf(f, name) ==
  {x \in PkgEntries(f, name) : ~IsFile(f, x) /\ Planned(f, name, x)}

\* the entries of the package below the directory x
Inside(f, name, x) ==
  {y \in PkgEntries(f, name) : Len(y) > Len(x) /\ SubSeq(y, 1, Len(x)) = x}

\* where x's target path is, and what file system f holds at and below it
PlaceOf(f, name, x) == Resolve(f, TargetOf(name, x), FALSE).at

HeldBelow(f, at) ==
  {a \in DOMAIN f : Len(a) > Len(at) /\ SubSeq(a, 1, Len(at)) = at}

FileInTheWay(n, name, x) ==
  /\ log[n].err # NoErr
  /\ Unchanged(n, name, x)
  /\ \A y \in Inside(log[n].pre, name, x) : AtTarget(After(n), name, y).err # ""

DirectoryReused(n, name, x) ==
  /\ ~ErrorAt(n, name, x)
  /\ Unchanged(n, name, x)
  /\ \A a \in HeldBelow(log[n].pre, PlaceOf(log[n].pre, name, x)) :
       a \in DOMAIN After(n) /\ After(n)[a] = log[n].pre[a]

OccupiedDirectoryPath ==
  \A n \in Calls : \A name \in Packages :
    (log[n].op = "Link" /\ Names(n, name)) =>
      \A x \in PlannedDirsOf(log[n].pre, name) :
        /\ (AtTarget(log[n].pre, name, x).err = ""
            /\ AtTarget(log[n].pre, name, x).node.kind = "file")
             => FileInTheWay(n, name, x)
        /\ (AtTarget(log[n].pre, name, x).err = ""
            /\ AtTarget(log[n].pre, name, x).node.kind = "dir")
             => DirectoryReused(n, name, x)

\* a Link([p]) that linked a.t and then failed at d's target path, which
\* holds a regular file
OccupiedDirectoryPathWitness ==
  \E n \in Calls :
    /\ IsCall(n, "Link", Pp)
    /\ AtTarget(log[n].pre, Pp, SourceRoot \o <<Pp, Dd>>).err = ""
    /\ AtTarget(log[n].pre, Pp, SourceRoot \o <<Pp, Dd>>).node.kind = "file"
    /\ SourceRoot \o <<Pp, Dd>> \in PlannedDirsOf(log[n].pre, Pp)
    /\ log[n].err = Err("mkdir", TargetOf(Pp, SourceRoot \o <<Pp, Dd>>))
    /\ HoldsLinkTo(After(n), Pp, SourceRoot \o <<Pp, At>>)
    /\ ~HoldsLinkTo(log[n].pre, Pp, SourceRoot \o <<Pp, At>>)

----------------------------------------------------------------------------
(* C33 Removal race is tolerated: when another process removes a link of  *)
(* the package between Unlink's look at it and Unlink's own removal,      *)
(* Unlink does not fail at that link; that link and the links of the      *)
(* other entries of the package are gone afterwards, and no directory     *)
(* above one of them is left empty.                                       *)

\* the other process outruns the n-th call, an Unlink, at x's link
OutrunAt(n, name, x) ==
  /\ log[n].op = "Unlink" /\ name \in NamedIn(n)
  /\ TargetOf(name, x) \in rival
  /\ CwdLinkTo(log[n].pre, name, x)
  /\ Planned(log[n].pre, name, x)

RaceTolerated ==
  \A n \in Calls : \A name \in Packages :
    (\E x \in Files(fs, name) : OutrunAt(n, name, x)) =>
      /\ log[n].err.kind # "remove"
      /\ (Ok(n) =>
            \A y \in Files(fs, name) :
              (CwdLinkTo(log[n].pre, name, y) /\ Planned(log[n].pre, name, y)) =>
                /\ Absent(After(n), name, y)
                /\ \A a \in AncestorsBelowRoot(name, y) :
                     (a \in DOMAIN After(n) /\ After(n)[a].kind = "dir")
                       => Children(After(n), a) # {})

\* an Unlink([p]) after a Link([p]) in which the other process took d/a.t
\* first: no error, d is gone with its links, and so is the link e.x that
\* the walk comes to afterwards
RaceToleratedWitness ==
  \E n \in Calls :
    /\ IsCall(n, "Unlink", Pp) /\ Ok(n)
    /\ OutrunAt(n, Pp, SourceRoot \o <<Pp, Dd, At>>)
    /\ P(TRUE, TargetRoot \o <<Ex>>) \notin rival
    /\ CwdLinkTo(log[n].pre, Pp, SourceRoot \o <<Pp, Ex>>)
    /\ Absent(After(n), Pp, SourceRoot \o <<Pp, Ex>>)
    /\ TargetRoot \o <<Dd>> \in DOMAIN log[n].pre
    /\ TargetRoot \o <<Dd>> \notin DOMAIN After(n)

----------------------------------------------------------------------------
(* C34 Link only adds: whatever the target holds and whatever packages    *)
(* are named, and whether the call returns an error or not, every entry   *)
(* that was there before a Link is there afterwards with the same kind,   *)
(* content and link destination.                                          *)
LinkOnlyAdds ==
  \A n \in Calls :
    log[n].op = "Link" =>
      \A a \in DOMAIN log[n].pre :
        a \in DOMAIN After(n) /\ After(n)[a] = log[n].pre[a]

\* a Link that made an entry and then failed at a regular file in its way
LinkOnlyAddsWitness ==
  \E n \in Calls :
    /\ log[n].op = "Link" /\ ~Ok(n)
    /\ DOMAIN After(n) # DOMAIN log[n].pre
    /\ \E a \in DOMAIN log[n].pre :
         /\ StrHasPrefix(a, linker.TargetDir.c) /\ a # linker.TargetDir.c
         /\ log[n].pre[a].kind = "file"
         /\ log[n].err = Err("conflict", P(TRUE, a))

----------------------------------------------------------------------------
(* C35 Overlapping packages conflict: when p and q both have a planned    *)
(* file at the same relative path and each of them alone could be linked, *)
(* Link([p, q]) links p, then fails with the conflict error at that path  *)
(* (the first such path of q's walk) while processing q, and the link at  *)
(* every such path still leads to p's file.                               *)

\* the files of q that p has a planned file for at the same relative path
CommonFiles(f) ==
  {y \in PlannedFiles(f, Qq) :
     \E x \in PlannedFiles(f, Pp) : RelOf(Pp, x) = RelOf(Qq, y)}

\* the one of them that the walk of q meets first
FirstCommon(f) ==
  CHOOSE y \in CommonFiles(f) :
    \A z \in CommonFiles(f) \ {y} : WalkBefore(RelOf(Qq, y).c, RelOf(Qq, z).c)

\* the n-th call is Link([p, q]) with common files, and each package
\* alone could be linked
Overlapping(n) ==
  /\ log[n].op = "Link" /\ log[n].names = <<Pp, Qq>>
  /\ CommonFiles(log[n].pre) # {}
  /\ LinkOp(log[n].pre, linker, <<Pp>>).err = NoErr
  /\ LinkOp(log[n].pre, linker, <<Qq>>).err = NoErr

OverlapConflicts ==
  \A n \in Calls :
    Overlapping(n) =>
      /\ log[n].err = Err("conflict", TargetOf(Qq, FirstCommon(log[n].pre)))
      /\ \A x \in PlannedFiles(log[n].pre, Pp) : HoldsLinkTo(After(n), Pp, x)
      /\ \A y \in CommonFiles(log[n].pre) : ~HoldsLinkTo(After(n), Qq, y)

\* a Link([p, q]) on a target without links: p ignores a.x, so q's a.x is
\* linked, and the call fails at d/b.x, which leads to p's file
OverlapConflictsWitness ==
  \E n \in Calls :
    /\ Overlapping(n)
    /\ Absent(log[n].pre, Qq, SourceRoot \o <<Qq, Ax>>)
    /\ HoldsLinkTo(After(n), Qq, SourceRoot \o <<Qq, Ax>>)
    /\ log[n].err = Err("conflict", TargetOf(Qq, SourceRoot \o <<Qq, Dd, Bx>>))
    /\ Absent(log[n].pre, Pp, SourceRoot \o <<Pp, Dd, Bx>>)
    /\ HoldsLinkTo(After(n), Pp, SourceRoot \o <<Pp, Dd, Bx>>)

----------------------------------------------------------------------------
(* C36 Package isolation under Unlink: when the planned files of p and of *)
(* q are all linked, an Unlink([p]) leaves each link of q at its target   *)
(* path with the destination it had, and leaves in place every directory *)
(* of the target that such a link is in.                                  *)

\* every planned file of the package is linked in f
AllLinked(f, name) == \A x \in PlannedFiles(f, name) : HoldsLinkTo(f, name, x)

\* the target paths of the directories above x, below the target root
DirsAbove(name, x) ==
  {P(TRUE, SubSeq(TargetComps(name, x), 1, k)) :
     k \in (Len(linker.TargetDir.c) + 1)..(Len(TargetComps(name, x)) - 1)}

UnlinkKeepsOtherPackage ==
  \A n \in Calls :
    (IsCall(n, "Unlink", Pp) /\ AllLinked(log[n].pre, Pp) /\ AllLinked(log[n].pre, Qq)) =>
      \A y \in PlannedFiles(log[n].pre, Qq) :
        /\ AtTarget(After(n), Qq, y) = AtTarget(log[n].pre, Qq, y)
        /\ \A d \in DirsAbove(Qq, y) : Lstat(After(n), d) = Lstat(log[n].pre, d)

----------------------------------------------------------------------------
(* C37 Unlink is idempotent and harmless on unlinked packages: whatever   *)
(* the target holds, an Unlink([p]) that finds no file of p linked        *)
(* returns no error and leaves the file system, the target tree           *)
(* included, as it was.                                                   *)

\* no file of the package is linked in f: no target path holds a link to
\* its file, nor one that Unlink takes for such a link
NoneLinked(f, name) ==
  \A x \in Files(f, name) : ~HoldsLinkTo(f, name, x) /\ ~CwdLinkTo(f, name, x)

UnlinkOfUnlinkedIsNoop ==
  \A n \in Calls : \A name \in Packages :
    (IsCall(n, "Unlink", name) /\ NoneLinked(log[n].pre, name)) =>
      Ok(n) /\ After(n) = log[n].pre

----------------------------------------------------------------------------
(* C38 Residue of a round trip is directories only: from an empty target, *)
(* after a Link([p]) and the Unlink([p]) that follows, the target tree    *)
(* holds no symbolic link and no regular file; every entry left is a      *)
(* directory that Link made for a planned directory of p.                 *)

\* the entries of f below the target root
TargetEntries(f) == HeldBelow(f, linker.TargetDir.c)

RoundTripLeavesDirs ==
  \A n \in Calls : \A name \in Packages :
    (LinkThenUnlink(n, name) /\ TargetEntries(log[n].pre) = {}) =>
      /\ Ok(n + 1)
      /\ \A a \in TargetEntries(After(n + 1)) :
           /\ After(n + 1)[a].kind = "dir"
           /\ a \in DOMAIN After(n)
           /\ \E x \in PlannedDirsOf(log[n].pre, name) : a = TargetComps(name, x)

\* a round trip of p from an empty target: Link made links, among them
\* one in the directory d, Unlink removed them and d, and the directory
\* made for p's empty directory m is left
RoundTripLeavesDirsWitness ==
  \E n \in Calls :
    /\ LinkThenUnlink(n, Pp) /\ TargetEntries(log[n].pre) = {}
    /\ HoldsLinkTo(After(n), Pp, SourceRoot \o <<Pp, Dd, Bx>>)
    /\ TargetRoot \o <<Dd>> \notin DOMAIN After(n + 1)
    /\ TargetEntries(After(n + 1)) = {TargetRoot \o <<Mm>>}

----------------------------------------------------------------------------
(* C39 The ignore file's name is excluded at every depth but loaded only  *)
(* at the root: no call makes or removes a symbolic link at the target    *)
(* path of a source entry named .gslk-ignore, at whatever depth (for a    *)
(* file of that name the target path is left exactly as it was); only the *)
(* patterns of the package root's ignore file decide what a Link links;   *)
(* and the package root itself is no entry: no call changes what the      *)
(* target directory is.                                                   *)

\* the entries of the package that have the ignore file's name
IgnoreNamed(f, name) == {x \in PkgEntries(f, name) : x[Len(x)] = IgnoreFileName}

\* x's target path holds a symbolic link in f
LinkAtTarget(f, name, x) ==
  AtTarget(f, name, x).err = "" /\ AtTarget(f, name, x).node.kind = "symlink"

IgnoreNameExcluded ==
  \A n \in Calls : \A name \in NamedIn(n) :
    /\ \A x \in IgnoreNamed(log[n].pre, name) :
         /\ LinkAtTarget(After(n), name, x) <=> LinkAtTarget(log[n].pre, name, x)
         /\ (LinkAtTarget(log[n].pre, name, x) \/ IsFile(log[n].pre, x))
              => Unchanged(n, name, x)
    /\ (log[n].op = "Link" /\ Ok(n)) =>
         \A x \in PlannedFiles(log[n].pre, name) : HoldsLinkTo(After(n), name, x)
    /\ Lstat(After(n), linker.TargetDir) = Lstat(log[n].pre, linker.TargetDir)

\* a Link([p]) that linked d/b.x, which the ignore file in d names, and
\* left nothing at the target path of that ignore file
IgnoreNameExcludedWitness ==
  \E n \in Calls :
    /\ IsCall(n, "Link", Pp) /\ Ok(n)
    /\ SourceRoot \o <<Pp, Dd, IgnoreFileName>> \in IgnoreNamed(log[n].pre, Pp)
    /\ log[n].pre[SourceRoot \o <<Pp, Dd, IgnoreFileName>>].data = <<Bx>>
    /\ Absent(log[n].pre, Pp, SourceRoot \o <<Pp, Dd, Bx>>)
    /\ HoldsLinkTo(After(n), Pp, SourceRoot \o <<Pp, Dd, Bx>>)
    /\ Absent(After(n), Pp, SourceRoot \o <<Pp, Dd, IgnoreFileName>>)

====
